---- MODULE Spec2Model ----
(***************************************************************************)
(* Model of the quant analyzer core of Cerisier:                           *)
(*   backend/apps/quant/analyzers/types.py   AnalysisResult                *)
(*   backend/apps/quant/analyzers/base.py    AnalyzerBase.safe_analyze     *)
(*   backend/apps/quant/analyzers/scorer.py  MultiFactorScorer             *)
(*   backend/apps/quant/analyzers/*.py       the nine data analyzers       *)
(*   backend/apps/quant/analyzers/ai_analyzer.py       AIAnalyzer          *)
(*   backend/apps/quant/ai/service.py                  AIService           *)
(*   backend/apps/quant/analyzers/signal_generator.py  SignalGenerator     *)
(*                                                                         *)
(* Numbers.  The Python code works on floats.  Every score an analyzer     *)
(* returns is rounded to two decimals, weights have two decimals, and      *)
(* confidences are taken with two decimals here, so the model uses exact   *)
(* fixed-point integers:                                                   *)
(*   score, final_score, component score : hundredths (85.0 is 8500)       *)
(*   weight, confidence                  : hundredths (0.25 is 25)         *)
(* round(x, 2) of a float returns a hundredth nearest to x.  When the      *)
(* exact value of x lies halfway between two hundredths, the direction is  *)
(* decided by the binary representation error of the float computation,    *)
(* so the model takes either neighbour (see RoundDiv and TieDirs).         *)
(***************************************************************************)
EXTENDS Integers, Sequences, FiniteSets, TLC

VARIABLES
    pc,         \* position of the caller: idle / constructed /
                \* analyze_called / analyzed / ready / armed / scored
    args,       \* arguments of the last AnalysisResult(...) or the behaviour given to safe_analyze
    outcome,    \* what that call produced: a value or a raised exception
    style,      \* MultiFactorScorer.style
    analyzers,  \* MultiFactorScorer._analyzers: names in dict order
    env,        \* what each selected analyzer's analyze() does on the data in place
    invoked,    \* names whose safe_analyze was called by score(), in call order
    ret         \* what score() produced: the returned dict or a raised exception

VARIABLES
    astep,      \* position of the caller of one data analyzer: idle / loaded / analysed
    ainput,     \* the analyzer called and the data in place for it
    aresult     \* what its analyze() produced

\* the state of the scorer and of its callers
scorerVars == <<pc, args, outcome, style, analyzers, env, invoked, ret>>

\* the state of a data analyzer and of its caller
analyzerVars == <<astep, ainput, aresult>>

VARIABLES
    spend,      \* the cache: today's recorded spend of each provider
    budget,     \* settings.AI_DAILY_BUDGET
    scall,      \* the last AIService call: method, provider, API behaviour, spend at its start
    sresult     \* what that call produced and whether it made an outbound request

\* the state of the AI service and of its caller
serviceVars == <<spend, budget, scall, sresult>>

VARIABLES
    gstep,      \* position of the caller of SignalGenerator: idle / fetched / generated /
                \* measured
    gargs,      \* atr_period, the scorer_result passed in and the stock's stored price bars
    gsignal,    \* the TradingSignal generate() returned
    gatr        \* what a direct call of _calculate_atr produced

\* the state of the signal generator and of its caller
generatorVars == <<gstep, gargs, gsignal, gatr>>

VARIABLES
    wquery,     \* a price-bar consumer, its lookback and the number of bars its stock has
                \* stored (dated 1 .. stored, the latest being the most recent)
    wrows       \* the dates of the bars its query returned, in the order it processes them

\* the state of a price-bar query
windowVars == <<wquery, wrows>>

VARIABLES
    route,      \* a DataSourceRouter.fetch_* call in progress: the method, how each source
                \* of self.sources behaves, the position of the loop and the sources called
    routed      \* what the call returned

\* the state of a data source router
routerVars == <<route, routed>>

VARIABLES
    initial_capital, \* Portfolio.initial_capital (cents)
    cash,       \* Portfolio.cash_balance (cents)
    positions,  \* the Position rows of the portfolio: stock -> [shares, avg_cost, current_price]
    trades,     \* the Trade rows of the portfolio, oldest first
    tcall       \* the last call of buy() or sell() and how it ended

\* the state of a paper-trading portfolio
simulatorVars == <<initial_capital, cash, positions, trades, tcall>>

VARIABLES
    txn,        \* the transactions of a buy() and a sell() running at the same time on one
                \* portfolio and stock: where each is, its arguments and how it ended
    locks       \* who holds the row lock of the Portfolio row and of the Position row

\* the state of two concurrent trades
lockVars == <<txn, locks>>

VARIABLES
    pipe,       \* a run of run_analysis_pipeline: how scoring each active stock ends, the
                \* position of the loop, results and errors
    summary     \* the dict the run returned

\* the state of the analysis pipeline task
pipelineVars == <<pipe, summary>>

VARIABLES
    callers,    \* the AIService._call_api calls of two workers running at the same time:
                \* where each is, its provider, the response it got and the spend it read
    usage       \* the estimated cost of the responses that carried usage, summed per
                \* provider, and the number of responses received

\* the state of the concurrent service calls
usageVars == <<callers, usage>>

\* the state outside the scorer, outside the data analyzers, outside the service,
\* outside the signal generator
outsideScorer == <<analyzerVars, serviceVars, generatorVars, windowVars, routerVars, simulatorVars, lockVars, pipelineVars, usageVars>>
outsideAnalyzers == <<scorerVars, generatorVars, windowVars, routerVars, simulatorVars, lockVars, pipelineVars, usageVars>>
outsideService == <<scorerVars, analyzerVars, generatorVars, windowVars, routerVars, simulatorVars, lockVars, pipelineVars, usageVars>>
outsideGenerator == <<scorerVars, analyzerVars, serviceVars, windowVars, routerVars, simulatorVars, lockVars, pipelineVars, usageVars>>

outsideWindow == <<scorerVars, analyzerVars, serviceVars, generatorVars, routerVars, simulatorVars, lockVars, pipelineVars, usageVars>>

outsideRouter == <<scorerVars, analyzerVars, serviceVars, generatorVars, windowVars, simulatorVars, lockVars, pipelineVars, usageVars>>

outsideSimulator == <<scorerVars, analyzerVars, serviceVars, generatorVars, windowVars, routerVars, lockVars, pipelineVars, usageVars>>

\* the state outside the portfolio and the two transactions
outsideLocks == <<scorerVars, analyzerVars, serviceVars, generatorVars, windowVars, routerVars, pipelineVars, usageVars>>

outsidePipeline == <<scorerVars, analyzerVars, serviceVars, generatorVars, windowVars, routerVars, simulatorVars, lockVars, usageVars>>

\* the state outside the service and its concurrent calls
outsideUsage == <<scorerVars, analyzerVars, generatorVars, windowVars, routerVars, simulatorVars, lockVars, pipelineVars>>

vars == <<scorerVars, analyzerVars, serviceVars, generatorVars, windowVars, routerVars, simulatorVars, lockVars, pipelineVars, usageVars>>

----------------------------------------------------------------------------
(* Bounds of the model *)

\* number of analyzers whose behaviour may differ from the common one in a score() call
MaxVaried == 1

\* scores an analyzer may attempt to report (hundredths); the first and last are out of range
ScoreVals == {-100, 0, 3000, 5000, 5050, 8500, 10000, 10100}

\* confidences an analyzer may attempt to report (hundredths); the first and last are out of range
ConfVals == {-10, 0, 50, 90, 100, 110}

\* messages of exceptions thrown inside analyze()
Messages == {"Something went wrong", "no such stock"}

\* records an analyzer may find beyond its minimum sample count
ExtraRecords == 1

\* component scores a sub-score function may return (hundredths)
CompVals == {0, 3000, 5000, 6997, 7000, 7002}

\* components of one analysis that may score differently from the others
MaxOddComps == 2

\* shares of non-null key fields in the financial reports (hundredths)
FillVals == {50, 100}

\* adjusted_score values the AI may answer (thousandths); the first and last are out of range
AdjustedVals == {-5000, 0, 30000, 30004, 50000, 69996, 70000, 72456, 100000, 150000}

\* values of settings.AI_DAILY_BUDGET besides the default (millionths of a dollar)
SmallBudget == 2000

\* service calls are observed one by one on a fresh day and from this far below the
\* budget on (millionths of a dollar); the calls in between are recorded as a whole
NearBudget == 2000

\* the most responses the concurrent service calls receive
MaxResponses == 3

\* the most active stocks a pipeline run goes through
MaxStocks == 12

\* the length of the pattern the stocks' outcomes repeat
OutcomeCycle == 3

\* the most Trade rows a portfolio collects
MaxTrades == 3

\* the most sources a DataSourceRouter is constructed with
MaxSources == 3

\* the most bars a stock has stored when a price-bar query is observed
MaxStoredBars == 122

\* the longest series of freely chosen price bars
MaxFreeBars == 3

\* lengths of the regular price series
TrendLens == {15, 20, 31}

\* daily close steps and half high-low ranges of the regular price series (ticks)
TrendSteps == {0, 1000}
TrendHalves == {0, 2000}

\* the atr_period values a SignalGenerator is constructed with; 14 is the default
AtrPeriods == {1, 14, 30}

\* final scores and confidences of the scorer results handed to generate() (hundredths)
GenScores == {0, 2000, 3000, 4999, 5000, 6550, 8000, 10000}
GenConfs == {0, 33, 80, 100}

----------------------------------------------------------------------------
(* types.py *)

Signal == {"BUY", "SELL", "HOLD"}

TradingStyle == {"ultra_short", "swing", "mid_long"}

\* placeholder where no AnalysisResult exists
NoResult == [score |-> 0, signal |-> "NONE", confidence |-> 0,
             explanation |-> <<>>, details |-> {}]

\* a call that returned v
Returned(v) == [raised |-> FALSE, exc |-> "", msg |-> "", value |-> v]

\* a call that raised exception class exc with str(e) = msg
Raised(exc, msg) == [raised |-> TRUE, exc |-> exc, msg |-> msg, value |-> NoResult]

\* AnalysisResult whose __post_init__ checks the score only
AnalysisResult_ScoreOnly(score, signal, confidence, explanation, details) ==
    IF ~(0 <= score /\ score <= 10000)
    THEN Raised("ValueError", "Score must be 0-100")
    ELSE Returned([score |-> score, signal |-> signal, confidence |-> confidence,
                   explanation |-> explanation, details |-> details])

\* AnalysisResult that clamps instead of raising
AnalysisResult_Clamps(score, signal, confidence, explanation, details) ==
    Returned([score |-> IF score < 0 THEN 0 ELSE IF score > 10000 THEN 10000 ELSE score,
              signal |-> signal,
              confidence |-> IF confidence < 0 THEN 0
                             ELSE IF confidence > 100 THEN 100 ELSE confidence,
              explanation |-> explanation, details |-> details])

\* AnalysisResult(score, signal, confidence, explanation, details) with __post_init__
AnalysisResult(score, signal, confidence, explanation, details) ==
    IF ~(0 <= score /\ score <= 10000)
    THEN Raised("ValueError", "Score must be 0-100")
    ELSE IF ~(0 <= confidence /\ confidence <= 100)
    THEN Raised("ValueError", "Confidence must be 0-1")
    ELSE Returned([score |-> score, signal |-> signal, confidence |-> confidence,
                   explanation |-> explanation, details |-> details])

----------------------------------------------------------------------------
(* base.py *)

\* the behaviours of an analyze() implementation: it throws, or it builds and returns a result
Throws(m) == [kind |-> "raise", exc |-> "RuntimeError", msg |-> m,
              score |-> 0, signal |-> "HOLD", confidence |-> 0]

Builds(s, sig, c) == [kind |-> "return", exc |-> "", msg |-> "",
                      score |-> s, signal |-> sig, confidence |-> c]

\* AnalyzerBase.analyze (abstract): what a concrete analyzer with behaviour b does
analyze(b) ==
    IF b.kind = "raise"
    THEN Raised(b.exc, b.msg)
    ELSE AnalysisResult(b.score, b.signal, b.confidence, <<"analysis">>, {})

\* safe_analyze with "except RuntimeError" in place of "except Exception"
safe_analyze_NarrowCatch(b) ==
    LET r == analyze(b) IN
    IF r.raised /\ r.exc = "RuntimeError"
    THEN AnalysisResult(5000, "HOLD", 0, <<"Analysis failed: ", r.msg>>,
                        {<<"error", r.msg>>})
    ELSE r

\* AnalyzerBase.safe_analyze
safe_analyze(b) ==
    LET r == analyze(b) IN
    IF r.raised
    THEN AnalysisResult(5000, "HOLD", 0, <<"Analysis failed: ", r.msg>>,
                        {<<"error", r.msg>>})
    ELSE r

----------------------------------------------------------------------------
(* scorer.py *)

\* MultiFactorScorer.STYLE_WEIGHTS
STYLE_WEIGHTS ==
    [ultra_short |->
        [technical |-> 40, money_flow |-> 25, chip |-> 15, sentiment |-> 10,
         game_theory |-> 5, behavior_finance |-> 5],
     swing |->
        [technical |-> 25, fundamental |-> 10, money_flow |-> 15, chip |-> 15,
         sentiment |-> 10, sector_rotation |-> 10, behavior_finance |-> 5, ai |-> 10],
     mid_long |->
        [technical |-> 10, fundamental |-> 25, money_flow |-> 10, chip |-> 10,
         sentiment |-> 5, sector_rotation |-> 10, macro |-> 5, behavior_finance |-> 5,
         game_theory |-> 5, ai |-> 15]]

\* MultiFactorScorer._ANALYZER_REGISTRY: the keys in dict order
_ANALYZER_REGISTRY ==
    <<"technical", "fundamental", "money_flow", "chip", "sentiment",
      "sector_rotation", "game_theory", "behavior_finance", "macro", "ai">>

\* the elements of a sequence
Range(seq) == {seq[i] : i \in 1..Len(seq)}

\* _build_analyzers that instantiates the whole registry
_build_analyzers_Eager(st) == _ANALYZER_REGISTRY

\* MultiFactorScorer._build_analyzers
_build_analyzers(st) ==
    LET weights == STYLE_WEIGHTS[st]
        InWeights(name) == name \in DOMAIN weights
    IN  SelectSeq(_ANALYZER_REGISTRY, InWeights)

\* weights.get(name, 0)
WeightGet(weights, name) == IF name \in DOMAIN weights THEN weights[name] ELSE 0

\* min(0.1, confidence) in place of max
ConfFloor_Min(confidence) == IF confidence < 10 THEN confidence ELSE 10

\* max(0.1, confidence) in hundredths
ConfFloor(confidence) == IF confidence > 10 THEN confidence ELSE 10

\* effective weight without the 0.1 floor
EffectiveWeight_NoFloor(w, confidence) == w * confidence

\* effective weight with + in place of *
EffectiveWeight_Additive(w, confidence) == w + ConfFloor(confidence)

\* w * max(0.1, result.confidence), in 1/10000
EffectiveWeight(w, confidence) == w * ConfFloor(confidence)

Abs(x) == IF x < 0 THEN -x ELSE x

Max(a, b) == IF a >= b THEN a ELSE b

Min(a, b) == IF a <= b THEN a ELSE b

\* the directions a rounding may take: both when the exact value is a tie
TieDirs(isTie) == IF isTie THEN BOOLEAN ELSE {FALSE}

\* num/den is exactly halfway between two integers
IsTie(num, den) == 2 * (num % den) = den

\* a nearest integer to num/den (den > 0); up decides an exact tie
RoundDiv(num, den, up) ==
    LET q == num \div den
        r == num % den
    IN  IF 2 * r < den THEN q
        ELSE IF 2 * r > den THEN q + 1
        ELSE IF up THEN q + 1 ELSE q

\* first loop of score() calling analyze() in place of safe_analyze()
RECURSIVE RunAnalyzers_Unsafe(_, _, _, _)
RunAnalyzers_Unsafe(order, e, i, acc) ==
    IF i > Len(order)
    THEN [raised |-> FALSE, exc |-> "", msg |-> "", called |-> order, results |-> acc]
    ELSE LET name == order[i]
             r == analyze(e[name])
         IN  IF r.raised
             THEN [raised |-> TRUE, exc |-> r.exc, msg |-> r.msg,
                   called |-> SubSeq(order, 1, i), results |-> acc]
             ELSE RunAnalyzers_Unsafe(order, e, i + 1, acc @@ (name :> r.value))

\* first loop of score(): safe_analyze on every analyzer in dict order; an
\* exception leaving safe_analyze ends the loop and leaves score()
RECURSIVE RunAnalyzers(_, _, _, _)
RunAnalyzers(order, e, i, acc) ==
    IF i > Len(order)
    THEN [raised |-> FALSE, exc |-> "", msg |-> "", called |-> order, results |-> acc]
    ELSE LET name == order[i]
             r == safe_analyze(e[name])
         IN  IF r.raised
             THEN [raised |-> TRUE, exc |-> r.exc, msg |-> r.msg,
                   called |-> SubSeq(order, 1, i), results |-> acc]
             ELSE RunAnalyzers(order, e, i + 1, acc @@ (name :> r.value))

\* second loop of score(): weighted_sum accumulated over results in dict order (1/1000000)
RECURSIVE WeightedSum(_, _, _, _)
WeightedSum(order, results, weights, i) ==
    IF i = 0 THEN 0
    ELSE LET name == order[i]
             result == results[name]
         IN  WeightedSum(order, results, weights, i - 1)
               + result.score * EffectiveWeight(WeightGet(weights, name), result.confidence)

\* second loop of score(): total_weight accumulated over results in dict order (1/10000)
RECURSIVE TotalWeight(_, _, _, _)
TotalWeight(order, results, weights, i) ==
    IF i = 0 THEN 0
    ELSE LET name == order[i]
         IN  TotalWeight(order, results, weights, i - 1)
               + EffectiveWeight(WeightGet(weights, name), results[name].confidence)

\* total_conf taken over max(0.1, confidence)
RECURSIVE TotalConf_Adjusted(_, _, _, _)
TotalConf_Adjusted(order, results, weights, i) ==
    IF i = 0 THEN 0
    ELSE TotalConf_Adjusted(order, results, weights, i - 1)
           + ConfFloor(results[order[i]].confidence) * WeightGet(weights, order[i])

\* sum(results[name].confidence * weights.get(name, 0) for name in results) (1/10000)
RECURSIVE TotalConf(_, _, _, _)
TotalConf(order, results, weights, i) ==
    IF i = 0 THEN 0
    ELSE TotalConf(order, results, weights, i - 1)
           + results[order[i]].confidence * WeightGet(weights, order[i])

\* sum(weights.get(name, 0) for name in results) (1/100)
RECURSIVE TotalW(_, _, _)
TotalW(order, weights, i) ==
    IF i = 0 THEN 0
    ELSE TotalW(order, weights, i - 1) + WeightGet(weights, order[i])

\* the signal rule with > and < in place of >= and <=
ScoreSignal_Strict(final_score) ==
    IF final_score > 7000 THEN "BUY"
    ELSE IF final_score < 3000 THEN "SELL"
    ELSE "HOLD"

\* the signal rule of score()
ScoreSignal(final_score) ==
    IF final_score >= 7000 THEN "BUY"
    ELSE IF final_score <= 3000 THEN "SELL"
    ELSE "HOLD"

\* the explanation listing the results in the order they were run, unsorted
SortedNames_RunOrder(order, results, i) == SubSeq(order, 1, i)

\* abs(x[1].score - 50), the sort key of _build_explanation
SortKey(result) == IF result.score >= 5000 THEN result.score - 5000 ELSE 5000 - result.score

\* sorted(..., key=..., reverse=True): stable, largest key first
RECURSIVE SortedNames(_, _, _)
SortedNames(order, results, i) ==
    IF i = 0 THEN <<>>
    ELSE LET sorted == SortedNames(order, results, i - 1)
             name == order[i]
             k == SortKey(results[name])
             ahead == Cardinality({j \in 1..Len(sorted) : SortKey(results[sorted[j]]) >= k})
         IN  SubSeq(sorted, 1, ahead) \o <<name>> \o SubSeq(sorted, ahead + 1, Len(sorted))

\* f"{score:.0f}": the score as a whole number, half to even (x.5 is exact in binary)
Format0f(score) ==
    LET q == score \div 100
        r == score % 100
    IN  IF r < 50 THEN q
        ELSE IF r > 50 THEN q + 1
        ELSE IF q % 2 = 0 THEN q ELSE q + 1

\* the parts list of _build_explanation
RECURSIVE ExplanationParts(_, _, _)
ExplanationParts(sorted, results, i) ==
    IF i = 0 THEN <<>>
    ELSE LET name == sorted[i]
             result == results[name]
             before == ExplanationParts(sorted, results, i - 1)
         IN  IF result.score >= 6500
             THEN Append(before, <<name, "bullish", Format0f(result.score)>>)
             ELSE IF result.score <= 3500
             THEN Append(before, <<name, "bearish", Format0f(result.score)>>)
             ELSE before

\* MultiFactorScorer._build_explanation
_build_explanation(st, order, results, signal) ==
    LET sorted == SortedNames(order, results, Len(order))
        parts == ExplanationParts(sorted, results, Len(sorted))
        prefix == IF signal = "BUY" THEN "Multi-factor bullish"
                  ELSE IF signal = "SELL" THEN "Multi-factor bearish"
                  ELSE "Multi-factor mixed"
        detail == IF parts # <<>>
                  THEN SubSeq(parts, 1, IF Len(parts) < 3 THEN Len(parts) ELSE 3)
                  ELSE <<"neutral across all factors">>
    IN  <<prefix, st, detail>>

\* placeholder where score() has returned nothing
NoScore == [final_score |-> 0, signal |-> "NONE", confidence |-> 0, style |-> "",
            explanation |-> <<>>, analyzer_results |-> <<>>, component_scores |-> <<>>]

\* weighted_sum / total_weight if total_weight > 0 else 50.0, then max(0.0, min(100.0, .)):
\* the exact final score before rounding, as numerator and denominator
FinalQuotient(weighted_sum, total_weight) ==
    IF total_weight > 0
    THEN IF weighted_sum < 0 THEN <<0, 1>>
         ELSE IF weighted_sum > 10000 * total_weight THEN <<10000, 1>>
         ELSE <<weighted_sum, total_weight>>
    ELSE <<5000, 1>>

\* the exact final score of the results before rounding
FinalUnrounded(order, results, weights) ==
    FinalQuotient(WeightedSum(order, results, weights, Len(order)),
                  TotalWeight(order, results, weights, Len(order)))

\* total_conf / total_w if total_w > 0 else 0.0: the exact overall confidence before rounding
ConfQuotient(total_conf, total_w) ==
    IF total_w > 0 THEN <<total_conf, total_w>> ELSE <<0, 1>>

\* the exact overall confidence of the results before rounding
ConfUnrounded(order, results, weights) ==
    ConfQuotient(TotalConf(order, results, weights, Len(order)),
                 TotalW(order, weights, Len(order)))

\* the dict score() returns, given the rounded final_score and confidence; upK
\* decides the rounding of component scores at exact ties
ScoreDict(st, order, results, final_score, confidence, upK) ==
    [final_score |-> final_score,
     signal |-> ScoreSignal(final_score),
     confidence |-> confidence,
     style |-> st,
     explanation |-> _build_explanation(st, order, results, ScoreSignal(final_score)),
     analyzer_results |-> results,
     component_scores |->
        [name \in Range(order) |->
            RoundDiv(results[name].score * WeightGet(STYLE_WEIGHTS[st], name), 100, upK)]]

\* some component score of the results is an exact tie
ComponentTie(st, order, results) ==
    \E name \in Range(order) :
        IsTie(results[name].score * WeightGet(STYLE_WEIGHTS[st], name), 100)

----------------------------------------------------------------------------
(* technical.py, fundamental.py, money_flow.py, chip.py, sentiment.py,
   sector.py, experimental.py: the data analyzers.  Each sub-score function
   is taken as what it returns, a component score clamped to [0, 100]. *)

\* the WEIGHTS tables with TechnicalAnalyzer's "ma" at 0.25: that table sums to 1.05
WEIGHTS_Skewed ==
    [technical |-> [ma |-> 25, macd |-> 20, kdj |-> 15, rsi |-> 15, boll |-> 15, volume |-> 15],
     fundamental |-> [valuation |-> 30, quality |-> 25, growth |-> 25, margins |-> 20],
     money_flow |-> [main_net_trend |-> 30, big_order_ratio |-> 25, retail_flow |-> 25,
                     flow_momentum |-> 20],
     chip |-> [margin_trend |-> 35, short_pressure |-> 25, leverage_ratio |-> 20,
               balance_momentum |-> 20],
     sentiment |-> [avg_sentiment |-> 40, sentiment_trend |-> 30, volume_signal |-> 30],
     sector_rotation |-> [sector_momentum |-> 40, sector_flow |-> 30, relative_strength |-> 30],
     game_theory |-> [volume_price_divergence |-> 50, volume_trend |-> 50],
     behavior_finance |-> [overreaction |-> 50, anchoring |-> 50],
     macro |-> <<>>]

\* the WEIGHTS table of every analyzer class (hundredths); MacroAnalyzer's is empty
WEIGHTS ==
    [technical |-> [ma |-> 20, macd |-> 20, kdj |-> 15, rsi |-> 15, boll |-> 15, volume |-> 15],
     fundamental |-> [valuation |-> 30, quality |-> 25, growth |-> 25, margins |-> 20],
     money_flow |-> [main_net_trend |-> 30, big_order_ratio |-> 25, retail_flow |-> 25,
                     flow_momentum |-> 20],
     chip |-> [margin_trend |-> 35, short_pressure |-> 25, leverage_ratio |-> 20,
               balance_momentum |-> 20],
     sentiment |-> [avg_sentiment |-> 40, sentiment_trend |-> 30, volume_signal |-> 30],
     sector_rotation |-> [sector_momentum |-> 40, sector_flow |-> 30, relative_strength |-> 30],
     game_theory |-> [volume_price_divergence |-> 50, volume_trend |-> 50],
     behavior_finance |-> [overreaction |-> 50, anchoring |-> 50],
     macro |-> <<>>]

\* the record count below which analyze() returns the neutral result
MinSamples ==
    [technical |-> 30, fundamental |-> 1, money_flow |-> 5, chip |-> 5, sentiment |-> 3,
     sector_rotation |-> 3, game_theory |-> 10, behavior_finance |-> 10, macro |-> 0]

\* sum(table.values())
RECURSIVE TableSum(_)
TableSum(table) ==
    IF DOMAIN table = {} THEN 0
    ELSE LET k == CHOOSE x \in DOMAIN table : TRUE
         IN  table[k] + TableSum([x \in DOMAIN table \ {k} |-> table[x]])

\* sum(scores[k] * self.WEIGHTS[k] for k in self.WEIGHTS), in 1/10000
WeightedScore(scores, weights) ==
    TableSum([k \in DOMAIN weights |-> scores[k] * weights[k]])

\* max(0.0, min(100.0, final_score)), in 1/10000
Clamp100(x) == IF x < 0 THEN 0 ELSE IF x > 1000000 THEN 1000000 ELSE x

\* round(max(0.0, min(100.0, final_score)), 2): hundredths
RoundedScore(scores, weights, up) == RoundDiv(Clamp100(WeightedScore(scores, weights)), 100, up)

\* the rounding of that final score is an exact tie
ScoreTie(scores, weights) == IsTie(Clamp100(WeightedScore(scores, weights)), 100)

\* if final_score >= 70: BUY / elif final_score <= 30: SELL / else: HOLD (hundredths)
SignalInclusive(final_score) ==
    IF final_score >= 7000 THEN "BUY" ELSE IF final_score <= 3000 THEN "SELL" ELSE "HOLD"

\* the strict rule replaced by the inclusive one
SignalStrict_Inclusive(final_score) ==
    IF final_score >= 7000 THEN "BUY" ELSE IF final_score <= 3000 THEN "SELL" ELSE "HOLD"

\* if final_score > 70: BUY / elif final_score < 30: SELL / else: HOLD (hundredths)
SignalStrict(final_score) ==
    IF final_score > 7000 THEN "BUY" ELSE IF final_score < 3000 THEN "SELL" ELSE "HOLD"

\* an early return that reports confidence 0.1
Insufficient_LowConfidence(msg) == AnalysisResult(5000, "HOLD", 10, <<msg>>, {})

\* the early return of an analyzer that has too little data
Insufficient(msg) == AnalysisResult(5000, "HOLD", 0, <<msg>>, {})

\* details={"component_scores": component_scores}
ComponentDetails(scores) == {<<"component_scores", scores>>}

\* the confidence tiers of MoneyFlowAnalyzer and ChipAnalyzer
TierConfidence(n) == IF n >= 15 THEN 90 ELSE IF n >= 10 THEN 70 ELSE IF n >= 5 THEN 50 ELSE 0

\* TechnicalAnalyzer.analyze on n bars whose indicators score as d.comps; the
\* signal is taken from the final score before it is rounded
TechnicalAnalyzer(d, up) ==
    IF d.n < 30 THEN Insufficient("Insufficient data for technical analysis")
    ELSE LET final_score == Clamp100(WeightedScore(d.comps, WEIGHTS.technical))
             signal == IF final_score >= 700000 THEN "BUY"
                       ELSE IF final_score <= 300000 THEN "SELL" ELSE "HOLD"
             bullish_count == Cardinality({k \in DOMAIN d.comps : d.comps[k] >= 6000})
             bearish_count == Cardinality({k \in DOMAIN d.comps : d.comps[k] <= 4000})
             agreement6 == IF bullish_count >= bearish_count THEN bullish_count
                           ELSE bearish_count
             confidence == IF agreement6 * 20 > 100 THEN 100 ELSE agreement6 * 20
         IN  AnalysisResult(RoundDiv(final_score, 100, up), signal, confidence,
                            <<"Technical">>, {<<"indicator_scores", d.comps>>})

\* FundamentalAnalyzer.analyze on n reports; d.fill is the share of non-null key fields
FundamentalAnalyzer(d, up) ==
    IF d.n = 0 THEN Insufficient("No financial report data available")
    ELSE LET final_score == RoundedScore(d.comps, WEIGHTS.fundamental, up)
         IN  AnalysisResult(final_score, SignalStrict(final_score), d.fill,
                            <<"Fundamental">>, ComponentDetails(d.comps))

\* MoneyFlowAnalyzer.analyze on n money-flow rows
MoneyFlowAnalyzer(d, up) ==
    IF d.n < 5 THEN Insufficient("Insufficient money-flow data for analysis")
    ELSE LET final_score == RoundedScore(d.comps, WEIGHTS.money_flow, up)
         IN  AnalysisResult(final_score, SignalInclusive(final_score), TierConfidence(d.n),
                            <<"Money flow">>, ComponentDetails(d.comps))

\* ChipAnalyzer.analyze on n margin rows
ChipAnalyzer(d, up) ==
    IF d.n < 5 THEN Insufficient("Insufficient margin data for chip analysis")
    ELSE LET final_score == RoundedScore(d.comps, WEIGHTS.chip, up)
         IN  AnalysisResult(final_score, SignalInclusive(final_score), TierConfidence(d.n),
                            <<"Chip">>, ComponentDetails(d.comps))

\* SentimentAnalyzer.analyze on n articles that carry a sentiment score
SentimentAnalyzer(d, up) ==
    IF d.n < 3 THEN Insufficient("Insufficient news articles for sentiment analysis")
    ELSE LET final_score == RoundedScore(d.comps, WEIGHTS.sentiment, up)
             confidence == IF d.n >= 20 THEN 90 ELSE IF d.n >= 10 THEN 70
                           ELSE IF d.n >= 5 THEN 50 ELSE IF d.n >= 3 THEN 30 ELSE 0
         IN  AnalysisResult(final_score, SignalInclusive(final_score), confidence,
                            <<"Sentiment">>, ComponentDetails(d.comps))

\* _compute_sector_returns: of the d.n peers that have at least 10 bars, those
\* whose oldest close is not 0 get a return
SectorReturns(d) == d.n - d.zero

\* SectorRotationAnalyzer.analyze: d.peers active stocks share the industry and
\* d.n of them have at least 10 bars
SectorRotationAnalyzer(d, up) ==
    IF ~d.found THEN Insufficient("Stock not found for sector analysis")
    ELSE IF ~d.industry THEN Insufficient("Stock has no industry classification")
    ELSE IF d.peers < 3 THEN Insufficient("Insufficient stocks in sector for analysis")
    ELSE IF SectorReturns(d) < 3
    THEN Insufficient("Insufficient kline data in sector for analysis")
    ELSE LET final_score == RoundedScore(d.comps, WEIGHTS.sector_rotation, up)
             coverage == RoundDiv(100 * SectorReturns(d), d.peers, FALSE)
             confidence == IF coverage > 100 THEN 100 ELSE coverage
         IN  AnalysisResult(final_score, SignalInclusive(final_score), confidence,
                            <<"Sector">>, ComponentDetails(d.comps))

\* GameTheoryAnalyzer.analyze on n bars, lookback_days = 30
GameTheoryAnalyzer(d, up) ==
    IF d.n < 10 THEN Insufficient("Insufficient data for game theory analysis")
    ELSE LET final_score == RoundedScore(d.comps, WEIGHTS.game_theory, up)
             confidence == IF d.n * 50 > 3000 THEN 100 ELSE RoundDiv(d.n * 50, 30, FALSE)
         IN  AnalysisResult(final_score, SignalInclusive(final_score), confidence,
                            <<"Game theory analysis: score=", Format0f(final_score)>>,
                            ComponentDetails(d.comps))

\* BehaviorFinanceAnalyzer.analyze on n bars, lookback_days = 30
BehaviorFinanceAnalyzer(d, up) ==
    IF d.n < 10 THEN Insufficient("Insufficient data for behavior finance analysis")
    ELSE LET final_score == RoundedScore(d.comps, WEIGHTS.behavior_finance, up)
             confidence == IF d.n * 40 > 3000 THEN 100 ELSE RoundDiv(d.n * 40, 30, FALSE)
         IN  AnalysisResult(final_score, SignalInclusive(final_score), confidence,
                            <<"Behavior finance analysis: score=", Format0f(final_score)>>,
                            ComponentDetails(d.comps))

\* MacroAnalyzer.analyze: a placeholder
MacroAnalyzer(d, up) ==
    AnalysisResult(5000, "HOLD", 10,
                   <<"Macro analysis requires external data integration">>,
                   {<<"status", "placeholder">>})

\* analyze() of the analyzer class registered under d.name
AnalyzerAnalyze(d, up) ==
    CASE d.name = "technical" -> TechnicalAnalyzer(d, up)
      [] d.name = "fundamental" -> FundamentalAnalyzer(d, up)
      [] d.name = "money_flow" -> MoneyFlowAnalyzer(d, up)
      [] d.name = "chip" -> ChipAnalyzer(d, up)
      [] d.name = "sentiment" -> SentimentAnalyzer(d, up)
      [] d.name = "sector_rotation" -> SectorRotationAnalyzer(d, up)
      [] d.name = "game_theory" -> GameTheoryAnalyzer(d, up)
      [] d.name = "behavior_finance" -> BehaviorFinanceAnalyzer(d, up)
      [] d.name = "macro" -> MacroAnalyzer(d, up)

----------------------------------------------------------------------------
(* ai/service.py and ai_analyzer.py.  Money is in millionths of a dollar, an
   adjusted_score in thousandths.  The provider's API is taken as what one
   request does: it fails, or it answers with a body and a token count. *)

\* AIService.PROVIDERS: the keys
PROVIDERS == {"deepseek", "chatgpt"}

\* AIService.COST_PER_1K_TOKENS
COST_PER_1K_TOKENS == [deepseek |-> 1000, chatgpt |-> 10000]

\* AIService.DEFAULT_DAILY_BUDGET
DEFAULT_DAILY_BUDGET == 5000000

\* class AIServiceError(Exception) and class BudgetExceededError(AIServiceError)
IsAIServiceError(exc) == exc \in {"AIServiceError", "BudgetExceededError"}

\* the outcome of a service call: what it produced, the provider's recorded
\* spend afterwards, and whether an outbound request was made
CallOutcome(produced, spent, requested) ==
    [outcome |-> produced, spend |-> spent, sent |-> requested]

\* AIService._record_usage: the recorded spend after total_tokens more tokens
_record_usage(provider, spent, total_tokens) ==
    spent + (total_tokens * COST_PER_1K_TOKENS[provider]) \div 1000

\* the budget check letting a spend equal to the budget pass
_check_budget_Strict(spent, daily_budget) == spent > daily_budget

\* AIService._check_budget: the daily budget is used up
_check_budget(spent, daily_budget) == spent >= daily_budget

\* AIService._call_api against an API that behaves as api
_call_api(provider, spent, daily_budget, api) ==
    IF _check_budget(spent, daily_budget)
    THEN CallOutcome(Raised("BudgetExceededError", <<"Daily AI budget exceeded for ", provider>>),
                     spent, FALSE)
    ELSE IF api.kind = "no_key"
    THEN CallOutcome(Raised("AIServiceError", <<"API key not configured for ", provider>>),
                     spent, FALSE)
    ELSE IF api.kind = "error"
    THEN CallOutcome(Raised("AIServiceError", <<"API call failed: ", "timeout">>), spent, TRUE)
    ELSE LET recorded == IF api.usage THEN _record_usage(provider, spent, api.tokens)
                         ELSE spent
         IN  IF api.kind = "bad_json"
             THEN CallOutcome(Raised("AIServiceError", <<"Invalid JSON response from ", provider>>),
                              recorded, TRUE)
             ELSE CallOutcome(Returned(api.body), recorded, TRUE)

\* analyze_news, analyze_financial, score_factors, generate_report: each formats
\* its prompt from well-formed arguments and returns self._call_api(...)
ServiceMethods == {"analyze_news", "analyze_financial", "score_factors", "generate_report"}

ServiceCall(method, provider, spent, daily_budget, api) ==
    _call_api(provider, spent, daily_budget, api)

\* AIService.score_factors
score_factors(provider, spent, daily_budget, api) ==
    ServiceCall("score_factors", provider, spent, daily_budget, api)

\* the adjusted_score taken as the AI gave it
ClampAdjusted_Unclamped(x) == x

\* max(0.0, min(100.0, adjusted_score)), in thousandths
ClampAdjusted(x) == IF x < 0 THEN 0 ELSE IF x > 100000 THEN 100000 ELSE x

\* AIAnalyzer.analyze for a stock that is in StockBasic (d.found) or is not
AIAnalyzer(d, spent, daily_budget, up) ==
    IF ~d.found
    THEN CallOutcome(AnalysisResult(5000, "HOLD", 0, <<"Stock not found for AI analysis">>, {}),
                     spent, FALSE)
    ELSE IF d.provider \notin PROVIDERS
    THEN CallOutcome(Raised("ValueError", <<"Unknown provider: ", d.provider>>), spent, FALSE)
    ELSE LET call == score_factors(d.provider, spent, daily_budget, d.api)
             ai_result == call.outcome.value
         IN  IF call.outcome.raised
             THEN IF IsAIServiceError(call.outcome.exc)
                  THEN CallOutcome(
                          AnalysisResult(5000, "HOLD", 0,
                                         <<"AI analysis unavailable: ", call.outcome.msg>>,
                                         {<<"error", call.outcome.msg>>}),
                          call.spend, call.sent)
                  ELSE call
             ELSE IF ai_result.kind = "text"
             THEN CallOutcome(Raised("ValueError", <<"could not convert string to float">>),
                              call.spend, call.sent)
             ELSE LET adjusted_score ==
                          ClampAdjusted(IF ai_result.kind = "missing" THEN 50000
                                        ELSE ai_result.adjusted_score)
                      signal == IF adjusted_score >= 70000 THEN "BUY"
                                ELSE IF adjusted_score <= 30000 THEN "SELL" ELSE "HOLD"
                      confidence == IF ai_result.reasoning THEN 70 ELSE 30
                  IN  CallOutcome(
                          AnalysisResult(RoundDiv(adjusted_score, 10, up), signal, confidence,
                                         <<"AI analysis">>,
                                         {<<"adjusted_score", adjusted_score>>,
                                          <<"provider", d.provider>>}),
                          call.spend, call.sent)

----------------------------------------------------------------------------
(* analyzers/signal_generator.py

   Prices are in ticks of 0.0001, the resolution of the KlineData price columns;
   the prices of a TradingSignal are in hundredths, like scores; position_pct
   and risk_reward_ratio are in hundredths; the style tables are in tenths.
   The ATR is the exact quotient num/den of a sum of true ranges in ticks by
   their count.  The float error of Python's arithmetic on these values stays
   far below the rounding steps and shows only in the direction of exact ties,
   which is left open. *)

\* ATR multiplier for stop-loss by style (tenths)
STOP_LOSS_ATR_MULT == [ultra_short |-> 15, swing |-> 25, mid_long |-> 35]

\* target risk-reward ratio by style (tenths)
TARGET_RR == [ultra_short |-> 20, swing |-> 30, mid_long |-> 40]

\* max position allocation % by style (whole percent)
MAX_POSITION_PCT == [ultra_short |-> 10, swing |-> 15, mid_long |-> 25]

\* list(reversed(klines))
RECURSIVE Reversed(_)
Reversed(seq) ==
    IF seq = <<>> THEN <<>> ELSE Append(Reversed(Tail(seq)), Head(seq))

\* sum(values)
RECURSIVE SeqSum(_)
SeqSum(seq) == IF seq = <<>> THEN 0 ELSE Head(seq) + SeqSum(Tail(seq))

\* tr = max(high - low, abs(high - prev_close), abs(low - prev_close))
TrueRange(bar, prev_close) ==
    Max(bar.high - bar.low, Max(Abs(bar.high - prev_close), Abs(bar.low - prev_close)))

\* the true ranges appended while walking sorted_klines from index 1
TrueRanges(sorted_klines) ==
    [i \in 1..(Len(sorted_klines) - 1) |->
        TrueRange(sorted_klines[i + 1], sorted_klines[i].close)]

\* true_ranges[-atr_period:] for atr_period >= 1
LastValues(true_ranges, atr_period) ==
    SubSeq(true_ranges, Max(1, Len(true_ranges) - atr_period + 1), Len(true_ranges))

\* _calculate_atr averaging every true range instead of the recent ones
_calculate_atr_AllRanges(klines, atr_period) ==
    IF Len(klines) < 2
    THEN [num |-> klines[1].high - klines[1].low, den |-> 1]
    ELSE LET true_ranges == TrueRanges(Reversed(klines))
         IN  [num |-> SeqSum(true_ranges), den |-> Len(true_ranges)]

\* _calculate_atr(klines) of a generator with the given atr_period; klines newest first
_calculate_atr(klines, atr_period) ==
    IF Len(klines) < 2
    THEN [num |-> klines[1].high - klines[1].low, den |-> 1]
    ELSE LET recent_trs == LastValues(TrueRanges(Reversed(klines)), atr_period)
         IN  [num |-> SeqSum(recent_trs), den |-> Len(recent_trs)]

\* KlineData.objects.filter(stock_id=stock_code).order_by("-date")[: max(atr_period + 1, 30)]
FetchKlines(stored, atr_period) ==
    SubSeq(stored, 1, Min(Len(stored), Max(atr_period + 1, 30)))

\* lookback_days of TechnicalAnalyzer, GameTheoryAnalyzer and BehaviorFinanceAnalyzer, and
\* the atr_period of SignalGenerator, as their constructors default them
Lookback == [technical |-> 120, game_theory |-> 30, behavior_finance |-> 30,
             signal_generator |-> 14]

\* the dates of the bars a consumer's query returns out of the dates 1 .. stored, in the
\* order the consumer processes them: TechnicalAnalyzer takes order_by("date")[:lookback];
\* the experimental analyzers take order_by("-date")[:lookback] and reverse it;
\* SignalGenerator takes order_by("-date")[: max(atr_period + 1, 30)]
PriceBarQuery(consumer, lookback, stored) ==
    IF consumer = "technical"
    THEN [k \in 1..Min(stored, lookback) |-> k]
    ELSE IF consumer = "signal_generator"
    THEN FetchKlines([k \in 1..stored |-> stored + 1 - k], lookback)
    ELSE Reversed([k \in 1..Min(stored, lookback) |-> stored + 1 - k])

\* the placeholder where generate() has produced nothing
NoSignal ==
    [signal |-> "NONE", score |-> 0, confidence |-> 0, style |-> "swing",
     entry_price |-> 0, stop_loss |-> 0, take_profit |-> 0, position_pct |-> 0,
     risk_reward_ratio |-> 0, explanation |-> <<>>, details |-> {}]

\* TradingSignal(...)
TradingSignal(signal, score, confidence, st, entry_price, stop_loss, take_profit, position_pct, risk_reward_ratio, explanation, details) ==
    [signal |-> signal, score |-> score, confidence |-> confidence, style |-> st,
     entry_price |-> entry_price, stop_loss |-> stop_loss, take_profit |-> take_profit,
     position_pct |-> position_pct, risk_reward_ratio |-> risk_reward_ratio,
     explanation |-> explanation, details |-> details]

\* the signal for a stock without bars passing the scorer's signal and confidence on
NoPriceData_PassesThrough(scorer_result) ==
    TradingSignal(scorer_result.signal, scorer_result.final_score, scorer_result.confidence,
                  scorer_result.style, 0, 0, 0, 0, 0,
                  <<"No price data available for signal generation">>, {})

\* if not klines: return TradingSignal(signal=Signal.HOLD, score=score, confidence=0.0, ...)
NoPriceData(scorer_result) ==
    TradingSignal("HOLD", scorer_result.final_score, 0, scorer_result.style, 0, 0, 0, 0, 0,
                  <<"No price data available for signal generation">>, {})

\* _build_explanation; position and rr are the values formatted to one decimal (tenths)
_build_signal_explanation(signal, st, entry, sl, tp, position1f, rr1f) ==
    IF signal \in {"BUY", "SELL"}
    THEN <<signal, "signal", st, "Entry", entry, "SL", sl, "TP", tp,
           "Position", position1f, "RR", rr1f>>
    ELSE <<"HOLD", "signal", st, "No trading action recommended">>

\* the levels of generate() with the take_profit of a HOLD for every signal
PriceLevels_Symmetric(signal, current_price, atr, st) ==
    LET reach == atr.num * STOP_LOSS_ATR_MULT[st]
    IN  IF signal = "SELL"
        THEN [stopNum |-> current_price * atr.den * 10 + reach, stopDen |-> atr.den * 10,
              takeNum |-> current_price * atr.den * 10 - reach, takeDen |-> atr.den * 10]
        ELSE [stopNum |-> current_price * atr.den * 10 - reach, stopDen |-> atr.den * 10,
              takeNum |-> current_price * atr.den * 10 + reach, takeDen |-> atr.den * 10]

\* the unrounded stop_loss and take_profit of generate() as quotients of ticks:
\* stop = stopNum / (10 den), take = takeNum / (100 den) for BUY and SELL,
\* take = takeNum / (10 den) for HOLD
PriceLevels(signal, current_price, atr, st) ==
    LET reach == atr.num * STOP_LOSS_ATR_MULT[st]
    IN  IF signal = "BUY"
        THEN [stopNum |-> current_price * atr.den * 10 - reach, stopDen |-> atr.den * 10,
              takeNum |-> current_price * atr.den * 100 + reach * TARGET_RR[st],
              takeDen |-> atr.den * 100]
        ELSE IF signal = "SELL"
        THEN [stopNum |-> current_price * atr.den * 10 + reach, stopDen |-> atr.den * 10,
              takeNum |-> current_price * atr.den * 100 - reach * TARGET_RR[st],
              takeDen |-> atr.den * 100]
        ELSE [stopNum |-> current_price * atr.den * 10 - reach, stopDen |-> atr.den * 10,
              takeNum |-> current_price * atr.den * 10 + reach, takeDen |-> atr.den * 10]

\* position sizing capped at the score factor instead of scaled by it
PositionNum_Unscaled(st, score, confidence) ==
    MAX_POSITION_PCT[st] * confidence * (IF score = 5000 THEN 0 ELSE 5000)

\* max_pct * confidence * abs(score - 50) / 50 in hundredths of a percent,
\* as the numerator over 5000
PositionNum(st, score, confidence) ==
    MAX_POSITION_PCT[st] * confidence * Abs(score - 5000)

\* round(tp_distance / sl_distance, 2) if sl_distance > 0 else 0.0, from the unrounded
\* levels: sl_distance = sl / stopDen, tp_distance = tp / takeDen, and takeDen is
\* stopDen or ten times stopDen
RiskReward(lv, current_price) ==
    LET sl == Abs(current_price * lv.stopDen - lv.stopNum)
        tp == Abs(lv.takeNum - current_price * lv.takeDen)
    IN  IF sl > 0
        THEN RoundDiv(tp * (100 \div (lv.takeDen \div lv.stopDen)), sl, FALSE)
        ELSE 0

\* the roundings of one generate() call that may be exact ties
GenerateTies(scorer_result, klines, atr_period) ==
    IF klines = <<>>
    THEN {[entry |-> FALSE, stop |-> FALSE, take |-> FALSE, position |-> FALSE,
           atr |-> FALSE, text |-> FALSE]}
    ELSE LET atr == _calculate_atr(klines, atr_period)
             lv == PriceLevels(scorer_result.signal, klines[1].close, atr, scorer_result.style)
         IN  [entry : TieDirs(IsTie(klines[1].close, 100)),
              stop : TieDirs(IsTie(lv.stopNum, lv.stopDen * 100)),
              take : TieDirs(IsTie(lv.takeNum, lv.takeDen * 100)),
              position : TieDirs(IsTie(PositionNum(scorer_result.style,
                                                   scorer_result.final_score,
                                                   scorer_result.confidence), 5000)),
              atr : TieDirs(IsTie(atr.num, atr.den)),
              text : LET num == PositionNum(scorer_result.style, scorer_result.final_score,
                                            scorer_result.confidence)
                     IN  IF IsTie(num, 5000) THEN BOOLEAN
                         ELSE TieDirs(IsTie(RoundDiv(num, 5000, FALSE), 10))]

\* SignalGenerator(atr_period).generate(stock_code, scorer_result) on the stored bars
generate(scorer_result, stored, atr_period, up) ==
    LET signal == scorer_result.signal
        score == scorer_result.final_score
        confidence == scorer_result.confidence
        st == scorer_result.style
        klines == FetchKlines(stored, atr_period)
    IN  IF klines = <<>>
        THEN NoPriceData(scorer_result)
        ELSE LET current_price == klines[1].close
                 atr == _calculate_atr(klines, atr_period)
                 lv == PriceLevels(signal, current_price, atr, st)
                 position_pct == RoundDiv(PositionNum(st, score, confidence), 5000, up.position)
                 risk_reward_ratio == RiskReward(lv, current_price)
                 entry_price == RoundDiv(current_price, 100, up.entry)
                 stop_loss == RoundDiv(lv.stopNum, lv.stopDen * 100, up.stop)
                 take_profit == RoundDiv(lv.takeNum, lv.takeDen * 100, up.take)
             IN  TradingSignal(signal, score, confidence, st, entry_price, stop_loss,
                               take_profit, position_pct, risk_reward_ratio,
                               _build_signal_explanation(
                                   signal, st, entry_price, stop_loss, take_profit,
                                   RoundDiv(position_pct, 10, up.text),
                                   risk_reward_ratio \div 10),
                               {<<"atr", RoundDiv(atr.num, atr.den, up.atr)>>,
                                <<"current_price", current_price>>,
                                <<"stop_loss_atr_mult", STOP_LOSS_ATR_MULT[st]>>,
                                <<"target_rr", TARGET_RR[st]>>})

----------------------------------------------------------------------------
(* The callers *)

\* the signal an analyzer attaches to a score it reports
AnalyzerSignal(score) ==
    IF score >= 7000 THEN "BUY" ELSE IF score <= 3000 THEN "SELL" ELSE "HOLD"

\* what a selected analyzer may do during one score() call: it throws, it builds a
\* result that violates a range, or it returns (score, signal, confidence)
EnvBehaviours ==
    {Throws("Something went wrong"), Builds(10100, "BUY", 100),
     Builds(5000, "HOLD", 50), Builds(8500, "BUY", 90), Builds(10000, "BUY", 0)}
      \cup {Builds(s, AnalyzerSignal(s), 100) : s \in {0, 3000, 5050, 7000, 10000}}

\* what an analyzer may do when a caller invokes it on its own
Behaviours ==
    {Throws(m) : m \in Messages}
      \cup {Builds(s, sig, c) : s \in ScoreVals, sig \in Signal, c \in ConfVals}

\* what the two analyzers singled out by ArrangePair may do, and what the rest does
PairBehaviours ==
    {Throws("Something went wrong"), Builds(8500, "BUY", 90), Builds(10000, "BUY", 0),
     Builds(1500, "SELL", 100), Builds(3000, "SELL", 100)}
RestBehaviours == {Builds(5000, "HOLD", 50), Builds(8500, "BUY", 90)}

\* the sets of analyzers that may behave differently from the rest in one score() call
VariedSets(names) == {W \in SUBSET names : Cardinality(W) <= MaxVaried}

\* the placeholder where no analyzer has been set up
NoInput ==
    [name |-> "none", n |-> 0, peers |-> 0, zero |-> 0, found |-> FALSE, industry |-> FALSE,
     comps |-> <<>>, fill |-> 0, provider |-> "",
     api |-> [kind |-> "none", usage |-> FALSE, tokens |-> 0,
              body |-> [kind |-> "missing", adjusted_score |-> 0, reasoning |-> FALSE]]]

\* the names of the data analyzers
DataAnalyzers == DOMAIN WEIGHTS

\* the record counts tried for an analyzer: none, and around its minimum
RecordCounts(name) ==
    {0} \cup {c \in (MinSamples[name] - 1)..(MinSamples[name] + ExtraRecords) : c >= 0}

\* the component scores of an analyzer: one common value, and up to MaxOddComps
\* components that score differently
ComponentScores(name) ==
    UNION {UNION {{[k \in DOMAIN WEIGHTS[name] |-> IF k \in V THEN alt[k] ELSE base] :
                      alt \in [V -> CompVals]} :
                  V \in {W \in SUBSET DOMAIN WEIGHTS[name] : Cardinality(W) <= MaxOddComps}} :
           base \in CompVals}

\* the data in place for the analyzer registered under name
DataInputs(name) ==
    IF name = "sector_rotation"
    THEN {[NoInput EXCEPT !.name = name, !.found = f, !.industry = i, !.peers = p,
                          !.n = c, !.zero = z, !.comps = cs] :
             f \in BOOLEAN, i \in BOOLEAN, p \in RecordCounts(name),
             c \in RecordCounts(name), z \in {0, 1},
             cs \in ComponentScores(name)}
    ELSE {[NoInput EXCEPT !.name = name, !.found = TRUE, !.n = c, !.comps = cs, !.fill = fl] :
             c \in RecordCounts(name), fl \in FillVals,
             cs \in ComponentScores(name)}

\* the data d reaches the minimum that analyze() asks for
Sufficient(d) ==
    IF d.name = "sector_rotation"
    THEN d.found /\ d.industry /\ d.peers >= 3 /\ d.n - d.zero >= 3
    ELSE d.n >= MinSamples[d.name]

\* the data can be as d says: the counts agree; where analyze() returns before it
\* computes sub-scores, they are taken to be all equal
Plausible(d) ==
    /\ d.name = "sector_rotation" =>
          /\ d.zero <= d.n /\ d.n <= d.peers
          /\ (~d.found \/ ~d.industry) => d.peers = 0
    /\ d.name # "fundamental" => d.fill = 100
    /\ ~Sufficient(d) => \A j, k \in DOMAIN d.comps : d.comps[j] = d.comps[k]

\* the placeholders where no service call has been made
NoBody == [kind |-> "missing", adjusted_score |-> 0, reasoning |-> FALSE]
NoCall == [method |-> "none", provider |-> "", api |-> NoInput.api, before |-> 0]

\* what one request to the provider's API does
ApiBehaviours ==
    {[kind |-> k, usage |-> FALSE, tokens |-> 0,
      body |-> [kind |-> "missing", adjusted_score |-> 0, reasoning |-> FALSE]] :
        k \in {"no_key", "error"}}
      \cup {[kind |-> "bad_json", usage |-> TRUE, tokens |-> 1000,
             body |-> [kind |-> "missing", adjusted_score |-> 0, reasoning |-> FALSE]]}
      \cup {[kind |-> "json", usage |-> u, tokens |-> 1000,
             body |-> [kind |-> bk, adjusted_score |-> 0, reasoning |-> TRUE]] :
                u \in BOOLEAN, bk \in {"missing", "text"}}
      \cup {[kind |-> "json", usage |-> TRUE, tokens |-> 1000,
             body |-> [kind |-> "number", adjusted_score |-> x, reasoning |-> r]] :
                x \in AdjustedVals, r \in BOOLEAN}

\* the API behaviours a direct service call may meet: every failure, and one answer of
\* each kind
ServiceApis ==
    {a \in ApiBehaviours :
        a.body.kind = "number" => (a.body.adjusted_score = 50000 /\ a.body.reasoning)}

\* spends other calls of the day may have recorded before the one observed
EarlierSpends(daily_budget) == {daily_budget - 1, daily_budget, daily_budget + 1}

\* one KlineData row: high, low and close in ticks
Bar(high, low, close) == [high |-> high, low |-> low, close |-> close]

\* the bars a freely chosen series is made of: a flat bar, a bar with a range of one
\* thousandth, an ordinary bar, and a bar closing halfway between two hundredths
BarVals ==
    {Bar(100000, 100000, 100000), Bar(100010, 100000, 100000),
     Bar(105000, 95000, 102000), Bar(101250, 99950, 100050)}

\* n daily bars, newest first: the close starts at 10.0 and moves by step a day,
\* the high and low lie half above and below it
Trend(n, step, half) ==
    [j \in 1..n |->
        LET price == 100000 + (n - j) * step
        IN  Bar(price + half, price - half, price)]

\* the price bars a stock may have stored, newest first
StoredBars ==
    UNION {[1..n -> BarVals] : n \in 0..MaxFreeBars}
      \cup {Trend(n, step, half) : n \in TrendLens, step \in TrendSteps, half \in TrendHalves}

\* the dicts MultiFactorScorer.score() returns, reduced to the keys generate() reads
ScorerResults ==
    {[signal |-> ScoreSignal(f), final_score |-> f, confidence |-> c, style |-> st] :
        f \in GenScores, c \in GenConfs, st \in TradingStyle}

\* DEFAULT_COMMISSION_RATE = Decimal("0.00025"), in hundred-thousandths
DEFAULT_COMMISSION_RATE == 25

\* MIN_COMMISSION = Decimal("5.00"), in cents
MIN_COMMISSION == 500

\* _calculate_commission without the minimum
_calculate_commission_NoMinimum(amount) == RoundDiv(amount * DEFAULT_COMMISSION_RATE, 100000, TRUE)

\* _calculate_commission: (amount * rate).quantize(0.01, ROUND_HALF_UP), at least
\* MIN_COMMISSION (cents)
_calculate_commission(amount) ==
    Max(RoundDiv(amount * DEFAULT_COMMISSION_RATE, 100000, TRUE), MIN_COMMISSION)

\* amount = (shares * price).quantize(0.01, ROUND_HALF_UP): cents from shares and a price
\* in ticks of 0.0001
TradeAmount(shares, price) == RoundDiv(shares * price, 100, TRUE)

\* the portfolio a call of buy() or sell() leaves: its outcome, the cash balance, the
\* Position rows and the Trade rows
Portfolio(ended, cash_balance, rows, log) ==
    [outcome |-> ended, cash |-> cash_balance, positions |-> rows, trades |-> log]

\* the Trade row of a call
Trade(trade_type, stock, shares, price) ==
    [trade_type |-> trade_type, stock |-> stock, shares |-> shares, price |-> price,
     amount |-> TradeAmount(shares, price),
     commission |-> _calculate_commission(TradeAmount(shares, price))]

\* the Position row of buy(): created with the price as avg_cost, or updated to the
\* weighted average cost quantized to 0.0001
BoughtPosition(rows, stock, shares, price) ==
    IF stock \notin DOMAIN rows
    THEN [shares |-> shares, avg_cost |-> price, current_price |-> price]
    ELSE [shares |-> rows[stock].shares + shares,
          avg_cost |-> IF rows[stock].shares + shares > 0
                       THEN RoundDiv(rows[stock].shares * rows[stock].avg_cost + shares * price,
                                     rows[stock].shares + shares, TRUE)
                       ELSE rows[stock].avg_cost,
          current_price |-> price]

\* buy() taking the cash before it looks at the balance, outside a transaction
buy_DeductFirst(cash_balance, rows, log, stock, shares, price) ==
    IF shares <= 0 THEN Portfolio("ValueError", cash_balance, rows, log)
    ELSE LET t == Trade("BUY", stock, shares, price)
         IN  Portfolio(IF cash_balance < t.amount + t.commission
                       THEN "InsufficientFundsError" ELSE "ok",
                       cash_balance - (t.amount + t.commission), rows, log)

\* SimulatorEngine.buy in one transaction.atomic
buy(cash_balance, rows, log, stock, shares, price) ==
    IF shares <= 0 THEN Portfolio("ValueError", cash_balance, rows, log)
    ELSE LET t == Trade("BUY", stock, shares, price)
         IN  IF cash_balance < t.amount + t.commission
             THEN Portfolio("InsufficientFundsError", cash_balance, rows, log)
             ELSE Portfolio("ok", cash_balance - (t.amount + t.commission),
                            [k \in DOMAIN rows \cup {stock} |->
                                IF k = stock THEN BoughtPosition(rows, stock, shares, price)
                                ELSE rows[k]],
                            Append(log, t))

\* SimulatorEngine.sell in one transaction.atomic
sell(cash_balance, rows, log, stock, shares, price) ==
    IF shares <= 0 THEN Portfolio("ValueError", cash_balance, rows, log)
    ELSE IF stock \notin DOMAIN rows
    THEN Portfolio("InsufficientSharesError", cash_balance, rows, log)
    ELSE IF rows[stock].shares < shares
    THEN Portfolio("InsufficientSharesError", cash_balance, rows, log)
    ELSE LET t == Trade("SELL", stock, shares, price)
         IN  Portfolio("ok", cash_balance + (t.amount - t.commission),
                       IF rows[stock].shares - shares = 0
                       THEN [k \in DOMAIN rows \ {stock} |-> rows[k]]
                       ELSE [rows EXCEPT ![stock].shares = @ - shares,
                                         ![stock].current_price = price],
                       Append(log, t))

\* the capital a portfolio opens with (cents): nothing, 105.00, 50 000.00
OpeningCash == {0, 10500, 5000000}

\* the stocks traded, the share counts asked for and the prices (ticks of 0.0001)
Stocks == {"600000", "000001"}
ShareVals == {-100, 0, 1, 100}
PriceVals == {100, 10000, 2002000}

\* how scorer.score(code) followed by signal_gen.generate(code, ...) ends for a stock:
\* with an exception, or with a final score (hundredths)
StockOutcomes ==
    {[raises |-> TRUE, score |-> 0]} \cup {[raises |-> FALSE, score |-> v] : v \in {2000, 3000, 5000, 7000, 8500}}

\* the active stocks of a run: n stocks whose outcomes repeat a pattern
ActiveStocks(n, pattern) == [k \in 1..n |-> pattern[((k - 1) % Len(pattern)) + 1]]

\* the loop of run_analysis_pipeline ended by the first exception
AnalyzeOne_Abort(run) ==
    IF run.outcomes[run.i].raises
    THEN [run EXCEPT !.i = Len(run.outcomes) + 1, !.errors = @ + 1]
    ELSE [run EXCEPT !.i = @ + 1,
                     !.results = Append(@, [stock_code |-> run.i, score |-> run.outcomes[run.i].score,
                                            signal |-> ScoreSignal(run.outcomes[run.i].score)])]

\* one iteration of "for code in active_stocks": the entry of the stock is appended to
\* results, or the exception is logged and counted
AnalyzeOne(run) ==
    IF run.outcomes[run.i].raises
    THEN [run EXCEPT !.i = @ + 1, !.errors = @ + 1]
    ELSE [run EXCEPT !.i = @ + 1,
                     !.results = Append(@, [stock_code |-> run.i, score |-> run.outcomes[run.i].score,
                                            signal |-> ScoreSignal(run.outcomes[run.i].score)])]

\* results.sort(key=lambda x: x["score"], reverse=True): stable, highest score first
RECURSIVE SortByScore(_)
SortByScore(results) ==
    IF results = <<>> THEN <<>>
    ELSE LET best == CHOOSE k \in 1..Len(results) :
                         /\ \A j \in 1..Len(results) : results[j].score <= results[k].score
                         /\ \A j \in 1..(k - 1) : results[j].score < results[k].score
         IN  <<results[best]>> \o SortByScore(SubSeq(results, 1, best - 1) \o SubSeq(results, best + 1, Len(results)))

\* [r for r in results if r["signal"] == signal]
RECURSIVE WithSignal(_, _)
WithSignal(results, signal) ==
    IF results = <<>> THEN <<>>
    ELSE (IF Head(results).signal = signal THEN <<Head(results)>> ELSE <<>>) \o WithSignal(Tail(results), signal)

\* the dict run_analysis_pipeline returns
PipelineSummary(results, errors) ==
    LET sorted == SortByScore(results)
        buy_signals == WithSignal(sorted, "BUY")
        sell_signals == WithSignal(sorted, "SELL")
    IN  [total_analyzed |-> Len(sorted),
         buy_count |-> Len(buy_signals),
         sell_count |-> Len(sell_signals),
         hold_count |-> Len(sorted) - Len(buy_signals) - Len(sell_signals),
         errors |-> errors,
         top_picks |-> SubSeq(buy_signals, 1, Min(10, Len(buy_signals))),
         top_sells |-> SubSeq(sell_signals, 1, Min(10, Len(sell_signals)))]

\* the placeholders where no run is in progress and where none has returned
NoRun == [outcomes |-> <<>>, i |-> 0, results |-> <<>>, errors |-> 0]
NoSummary == [total_analyzed |-> -1, buy_count |-> 0, sell_count |-> 0, hold_count |-> 0, errors |-> 0, top_picks |-> <<>>, top_sells |-> <<>>]

\* the workers calling the service at the same time
Workers == {"w1", "w2"}

\* a worker that is not inside _call_api
NoCaller == [pc |-> "idle", provider |-> "", usage |-> FALSE, tokens |-> 0, kind |-> "none", current |-> 0]

\* a transaction that has not begun
Idle == [pc |-> "idle", stock |-> "", shares |-> 0, price |-> 0, outcome |-> "none"]

\* the placeholder where neither buy() nor sell() has been called
NoTrade == [method |-> "none", stock |-> "", shares |-> 0, price |-> 0, outcome |-> "none"]

\* the columns of the empty DataFrame each fetch_* method falls back to; fetch_news falls
\* back to an empty list, which has none
FallbackColumns ==
    [fetch_stock_list |-> <<"code", "name", "industry", "market">>,
     fetch_kline |-> <<"date", "open", "high", "low", "close", "volume", "amount", "turnover", "change_pct">>,
     fetch_money_flow |-> <<"date", "main_net", "huge_net", "big_net", "mid_net", "small_net">>,
     fetch_news |-> <<>>,
     fetch_financial_report |-> <<"period", "pe_ratio", "pb_ratio", "roe", "revenue", "net_profit", "gross_margin", "debt_ratio", "report_date">>,
     fetch_margin_data |-> <<"date", "margin_balance", "short_balance", "margin_buy", "margin_repay">>]

\* what a source does when called: return rows, return an empty frame or list, return
\* None, or raise
SourceBehaviours == {"data", "empty", "none", "raises"}

\* the router letting an exception of a source escape
Attempt_Uncaught(method, behaviour) ==
    IF behaviour = "data" THEN "return" ELSE IF behaviour = "raises" THEN "raise" ELSE "skip"

\* the body of the loop on one source: the result is returned when it is not None and not
\* empty (when it is truthy, in fetch_news); an exception is logged and the loop continues
Attempt(method, behaviour) ==
    IF behaviour = "raises" THEN "skip"
    ELSE IF method = "fetch_news"
         THEN (IF behaviour \in {"none", "empty"} THEN "skip" ELSE "return")
         ELSE (IF behaviour # "none" /\ behaviour # "empty" THEN "return" ELSE "skip")

\* the placeholders where no fetch_* call is in progress and where none has returned
NoRoute == [method |-> "none", sources |-> <<>>, i |-> 0, called |-> <<>>]
NoReturn == [kind |-> "none", source |-> 0, columns |-> <<>>]

\* the placeholder where no price-bar query is observed
NoQuery == [consumer |-> "none", lookback |-> 0, stored |-> 0, done |-> FALSE]

\* the placeholder where _calculate_atr has not been called
NoATR == [raised |-> FALSE, exc |-> "", num |-> 0, den |-> 1]

\* the placeholder where no generator has been set up
NoArgs ==
    [atr_period |-> 14,
     scorer_result |-> [signal |-> "HOLD", final_score |-> 5000, confidence |-> 0,
                        style |-> "swing"],
     stored |-> <<>>]

----------------------------------------------------------------------------
Init ==
    /\ pc = "idle"
    /\ args = Builds(0, "HOLD", 0)
    /\ outcome = Returned(NoResult)
    /\ style = "swing"
    /\ analyzers = <<>>
    /\ env = <<>>
    /\ invoked = <<>>
    /\ ret = [raised |-> FALSE, exc |-> "", msg |-> "", value |-> NoScore]
    /\ astep = "idle"
    /\ ainput = NoInput
    /\ aresult = Returned(NoResult)
    /\ spend = [p \in PROVIDERS |-> 0]
    /\ budget = DEFAULT_DAILY_BUDGET
    /\ scall = NoCall
    /\ sresult = CallOutcome(Returned(NoBody), 0, FALSE)
    /\ gstep = "idle"
    /\ gargs = NoArgs
    /\ gsignal = NoSignal
    /\ gatr = NoATR
    /\ wquery = NoQuery
    /\ wrows = <<>>
    /\ route = NoRoute
    /\ routed = NoReturn
    /\ initial_capital \in OpeningCash
    /\ cash = initial_capital
    /\ positions = <<>>
    /\ trades = <<>>
    /\ tcall = NoTrade
    /\ txn = [t \in {"buy", "sell"} |-> Idle]
    /\ locks = [row \in {"Portfolio", "Position"} |-> "none"]
    /\ pipe = NoRun
    /\ summary = NoSummary
    /\ callers = [c \in Workers |-> NoCaller]
    /\ usage = [owed |-> [p \in PROVIDERS |-> 0], responses |-> 0]

\* a caller constructs an AnalysisResult directly
Construct ==
    /\ pc = "idle"
    /\ \E s \in ScoreVals, sig \in Signal, c \in ConfVals :
          /\ args' = Builds(s, sig, c)
          /\ outcome' = AnalysisResult(s, sig, c, <<"test">>, {})
    /\ pc' = "constructed"
    /\ UNCHANGED <<style, analyzers, env, invoked, ret>>
    /\ UNCHANGED outsideScorer

\* a caller invokes analyze() directly on an analyzer that behaves as b
CallAnalyze ==
    /\ pc = "idle"
    /\ \E b \in Behaviours :
          /\ args' = b
          /\ outcome' = analyze(b)
    /\ pc' = "analyze_called"
    /\ UNCHANGED <<style, analyzers, env, invoked, ret>>
    /\ UNCHANGED outsideScorer

\* a caller invokes safe_analyze() on an analyzer that behaves as b
CallSafeAnalyze ==
    /\ pc = "idle"
    /\ \E b \in Behaviours :
          /\ args' = b
          /\ outcome' = safe_analyze(b)
    /\ pc' = "analyzed"
    /\ UNCHANGED <<style, analyzers, env, invoked, ret>>
    /\ UNCHANGED outsideScorer

\* MultiFactorScorer.__init__
NewScorer ==
    /\ pc = "idle"
    /\ \E st \in TradingStyle :
          /\ style' = st
          /\ analyzers' = _build_analyzers(st)
    /\ pc' = "ready"
    /\ UNCHANGED <<args, outcome, env, invoked, ret>>
    /\ UNCHANGED outsideScorer

\* the data the selected analyzers will read is in place: it decides what each
\* analyze() does during the coming score() call
Arrange ==
    /\ pc = "ready"
    /\ \E base \in EnvBehaviours, V \in VariedSets(Range(analyzers)) :
       \E alt \in [V -> EnvBehaviours] :
          env' = [n \in Range(analyzers) |-> IF n \in V THEN alt[n] ELSE base]
    /\ pc' = "armed"
    /\ UNCHANGED <<args, outcome, style, analyzers, invoked, ret>>
    /\ UNCHANGED outsideScorer

\* MultiFactorScorer.score
Score ==
    /\ pc = "armed"
    /\ \E run \in {RunAnalyzers(analyzers, env, 1, <<>>)} :
          /\ invoked' = run.called
          /\ IF run.raised
             THEN ret' = [raised |-> TRUE, exc |-> run.exc, msg |-> run.msg, value |-> NoScore]
             ELSE \E fin \in {FinalUnrounded(analyzers, run.results, STYLE_WEIGHTS[style])},
                     cnf \in {ConfUnrounded(analyzers, run.results, STYLE_WEIGHTS[style])} :
                  \E final_score \in {RoundDiv(fin[1], fin[2], up) :
                                         up \in TieDirs(IsTie(fin[1], fin[2]))},
                     confidence \in {RoundDiv(cnf[1], cnf[2], up) :
                                        up \in TieDirs(IsTie(cnf[1], cnf[2]))},
                     upK \in TieDirs(ComponentTie(style, analyzers, run.results)) :
                        ret' = [raised |-> FALSE, exc |-> "", msg |-> "",
                                value |-> ScoreDict(style, analyzers, run.results,
                                                    final_score, confidence, upK)]
    /\ pc' = "scored"
    /\ UNCHANGED <<args, outcome, style, analyzers, env>>
    /\ UNCHANGED outsideScorer

\* the caller drops what it holds and starts over
Discard ==
    /\ pc # "idle"
    /\ pc' = "idle"
    /\ args' = Builds(0, "HOLD", 0)
    /\ outcome' = Returned(NoResult)
    /\ style' = "swing"
    /\ analyzers' = <<>>
    /\ env' = <<>>
    /\ invoked' = <<>>
    /\ ret' = [raised |-> FALSE, exc |-> "", msg |-> "", value |-> NoScore]
    /\ UNCHANGED outsideScorer

Next ==
    Construct \/ CallAnalyze \/ CallSafeAnalyze \/ NewScorer \/ Arrange \/ Score \/ Discard

\* the analyzer framework and the multi-factor scorer under every caller
ScorerSpec == Init /\ [][Next]_vars

\* the data in place makes two of the selected analyzers behave each in its own way
ArrangePair ==
    /\ pc = "ready"
    /\ \E base \in RestBehaviours, a, b \in Range(analyzers) :
       \E alt \in [{a, b} -> PairBehaviours] :
          /\ a # b
          /\ env' = [n \in Range(analyzers) |-> IF n \in {a, b} THEN alt[n] ELSE base]
    /\ pc' = "armed"
    /\ UNCHANGED <<args, outcome, style, analyzers, invoked, ret>>
    /\ UNCHANGED outsideScorer

OrderNext == NewScorer \/ ArrangePair \/ Score \/ Discard

\* the scorer on results that differ between two analyzers
OrderSpec == Init /\ [][OrderNext]_vars

----------------------------------------------------------------------------
(* The data analyzers and the AI analyzer under their callers *)

\* the records an analyzer will read are in the database
LoadData ==
    /\ astep = "idle"
    /\ \E name \in DataAnalyzers : \E d \in DataInputs(name) :
          /\ Plausible(d)
          /\ ainput' = d
    /\ astep' = "loaded"
    /\ UNCHANGED <<aresult, serviceVars>>
    /\ UNCHANGED outsideAnalyzers

\* <Analyzer>.analyze of a data analyzer
Analyze ==
    /\ astep = "loaded"
    /\ ainput.name \in DataAnalyzers
    /\ \E up \in TieDirs(ScoreTie(ainput.comps, WEIGHTS[ainput.name])) :
          aresult' = AnalyzerAnalyze(ainput, up)
    /\ astep' = "analysed"
    /\ UNCHANGED <<ainput, serviceVars>>
    /\ UNCHANGED outsideAnalyzers

\* the stock, the settings, the cache and the provider's API are as the AI analyzer
\* will find them
LoadAI ==
    /\ astep = "idle"
    /\ \E f \in BOOLEAN, p \in PROVIDERS \cup {"gemini"}, api \in ApiBehaviours :
          ainput' = [NoInput EXCEPT !.name = "ai", !.found = f, !.provider = p, !.api = api]
    /\ \E b \in {SmallBudget, DEFAULT_DAILY_BUDGET} :
          /\ budget' = b
          /\ \E sp \in {0, b - 1, b, b + 1} : spend' = [p \in PROVIDERS |-> sp]
    /\ astep' = "loaded"
    /\ UNCHANGED <<aresult, scall, sresult>>
    /\ UNCHANGED outsideAnalyzers

\* AIAnalyzer.analyze
AnalyzeAI ==
    /\ astep = "loaded"
    /\ ainput.name = "ai"
    /\ \E spent \in {IF ainput.provider \in PROVIDERS THEN spend[ainput.provider] ELSE 0} :
       \E up \in BOOLEAN :
       \E done \in {AIAnalyzer(ainput, spent, budget, up)} :
          /\ aresult' = done.outcome
          /\ sresult' = IF ainput.found /\ ainput.provider \in PROVIDERS
                        THEN score_factors(ainput.provider, spent, budget, ainput.api)
                        ELSE CallOutcome(Returned(NoBody), spent, FALSE)
          /\ scall' = [method |-> IF ainput.found /\ ainput.provider \in PROVIDERS
                                  THEN "score_factors" ELSE "none",
                       provider |-> ainput.provider, api |-> ainput.api, before |-> spent]
          /\ spend' = IF ainput.provider \in PROVIDERS
                      THEN [spend EXCEPT ![ainput.provider] = done.spend]
                      ELSE spend
    /\ astep' = "analysed"
    /\ UNCHANGED <<ainput, budget>>
    /\ UNCHANGED outsideAnalyzers

\* the caller drops the result; the next scenario starts from a clean cache
Release ==
    /\ astep # "idle"
    /\ astep' = "idle"
    /\ ainput' = NoInput
    /\ aresult' = Returned(NoResult)
    /\ spend' = [p \in PROVIDERS |-> 0]
    /\ budget' = DEFAULT_DAILY_BUDGET
    /\ scall' = NoCall
    /\ sresult' = CallOutcome(Returned(NoBody), 0, FALSE)
    /\ UNCHANGED outsideAnalyzers

AnalyzerNext == LoadData \/ Analyze \/ LoadAI \/ AnalyzeAI \/ Release

\* every analyzer class under every arrangement of its data
AnalyzerSpec == Init /\ [][AnalyzerNext]_vars

----------------------------------------------------------------------------
(* The AI service under its callers *)

\* the deployment sets settings.AI_DAILY_BUDGET
SetBudget ==
    /\ \E b \in {SmallBudget, DEFAULT_DAILY_BUDGET} : b # budget /\ budget' = b
    /\ scall' = NoCall
    /\ sresult' = CallOutcome(Returned(NoBody), 0, FALSE)
    /\ UNCHANGED spend
    /\ UNCHANGED outsideService

\* calls not observed one by one have recorded usage for a provider
EarlierUsage ==
    /\ \E p \in PROVIDERS, v \in EarlierSpends(budget) :
          /\ spend[p] < v
          /\ spend' = [spend EXCEPT ![p] = v]
    /\ scall' = NoCall
    /\ sresult' = CallOutcome(Returned(NoBody), 0, FALSE)
    /\ UNCHANGED budget
    /\ UNCHANGED outsideService

\* date.today() changes: _get_budget_key names a fresh cache entry for every provider
NewDay ==
    /\ \E p \in PROVIDERS : spend[p] > 0
    /\ spend' = [p \in PROVIDERS |-> 0]
    /\ scall' = NoCall
    /\ sresult' = CallOutcome(Returned(NoBody), 0, FALSE)
    /\ UNCHANGED budget
    /\ UNCHANGED outsideService

\* AIService(provider).<method>(...) with well-formed arguments
CallService ==
    /\ \E method \in ServiceMethods, p \in PROVIDERS, api \in ServiceApis :
       \E done \in {ServiceCall(method, p, spend[p], budget, api)} :
          /\ spend[p] = 0 \/ spend[p] >= budget - NearBudget
          /\ scall' = [method |-> method, provider |-> p, api |-> api, before |-> spend[p]]
          /\ sresult' = done
          /\ spend' = [spend EXCEPT ![p] = done.spend]
    /\ UNCHANGED budget
    /\ UNCHANGED outsideService

ServiceNext == SetBudget \/ EarlierUsage \/ NewDay \/ CallService

\* the AI service under every sequence of calls, recorded usage and days
ServiceSpec == Init /\ [][ServiceNext]_vars

----------------------------------------------------------------------------
(* The signal generator under its callers *)

\* a view or task holds a scorer result for a stock with some stored price bars and
\* constructs a SignalGenerator
Fetch ==
    /\ gstep = "idle"
    /\ \E r \in ScorerResults, bars \in StoredBars, period \in AtrPeriods :
          gargs' = [atr_period |-> period, scorer_result |-> r, stored |-> bars]
    /\ gstep' = "fetched"
    /\ UNCHANGED <<gsignal, gatr>>
    /\ UNCHANGED outsideGenerator

\* signal_gen.generate(stock_code, scorer_result)
Generate ==
    /\ gstep = "fetched"
    /\ \E up \in GenerateTies(gargs.scorer_result,
                              FetchKlines(gargs.stored, gargs.atr_period),
                              gargs.atr_period) :
          gsignal' = generate(gargs.scorer_result, gargs.stored, gargs.atr_period, up)
    /\ gstep' = "generated"
    /\ UNCHANGED <<gargs, gatr>>
    /\ UNCHANGED outsideGenerator

\* gen._calculate_atr(klines) called on the fetched bars directly; klines[0] of an
\* empty list raises IndexError
CalculateAtr ==
    /\ gstep = "fetched"
    /\ LET klines == FetchKlines(gargs.stored, gargs.atr_period)
       IN  gatr' = IF klines = <<>>
                   THEN [raised |-> TRUE, exc |-> "IndexError", num |-> 0, den |-> 1]
                   ELSE LET atr == _calculate_atr(klines, gargs.atr_period)
                        IN  [raised |-> FALSE, exc |-> "", num |-> atr.num, den |-> atr.den]
    /\ gstep' = "measured"
    /\ UNCHANGED <<gargs, gsignal>>
    /\ UNCHANGED outsideGenerator

\* the caller serializes the signal, or reads the ATR, and drops it
Drop ==
    /\ gstep \in {"generated", "measured"}
    /\ gstep' = "idle"
    /\ gargs' = NoArgs
    /\ gsignal' = NoSignal
    /\ gatr' = NoATR
    /\ UNCHANGED outsideGenerator

GeneratorNext == Fetch \/ Generate \/ CalculateAtr \/ Drop

\* the signal generator on every scorer result and every stored price series
GeneratorSpec == Init /\ [][GeneratorNext]_vars

----------------------------------------------------------------------------
(* The price-bar queries *)

\* a consumer is constructed for a stock that has some bars stored
Store ==
    /\ wquery = NoQuery
    /\ \E c \in DOMAIN Lookback, n \in 0..MaxStoredBars :
          wquery' = [consumer |-> c, lookback |-> Lookback[c], stored |-> n, done |-> FALSE]
    /\ UNCHANGED wrows
    /\ UNCHANGED outsideWindow

\* the consumer evaluates its KlineData query
Query ==
    /\ wquery # NoQuery /\ ~wquery.done
    /\ wrows' = PriceBarQuery(wquery.consumer, wquery.lookback, wquery.stored)
    /\ wquery' = [wquery EXCEPT !.done = TRUE]
    /\ UNCHANGED outsideWindow

\* the consumer is done with the rows
Forget ==
    /\ wquery.done
    /\ wquery' = NoQuery
    /\ wrows' = <<>>
    /\ UNCHANGED outsideWindow

\* every price-bar consumer on every number of stored bars
WindowSpec == Init /\ [][Store \/ Query \/ Forget]_vars

----------------------------------------------------------------------------
(* The data source router *)

\* a fetch_* method is called on a router over some sources
RouterFetch ==
    /\ route = NoRoute
    /\ \E m \in DOMAIN FallbackColumns, n \in 0..MaxSources :
          \E srcs \in [1..n -> SourceBehaviours] :
              route' = [method |-> m, sources |-> srcs, i |-> 1, called |-> <<>>]
    /\ routed' = NoReturn
    /\ UNCHANGED outsideRouter

\* one iteration of "for source in self.sources"
TrySource ==
    /\ route # NoRoute /\ routed = NoReturn /\ route.i <= Len(route.sources)
    /\ \E a \in {Attempt(route.method, route.sources[route.i])} :
          /\ routed' = IF a = "return"
                        THEN [kind |-> IF route.method = "fetch_news" THEN "rows" ELSE "frame",
                              source |-> route.i, columns |-> FallbackColumns[route.method]]
                        ELSE IF a = "raise"
                        THEN [kind |-> "raised", source |-> route.i, columns |-> <<>>]
                        ELSE NoReturn
          /\ route' = [route EXCEPT !.i = @ + 1, !.called = Append(@, route.i)]
    /\ UNCHANGED outsideRouter

\* the loop has run out of sources: the empty frame or list is returned
Fallback ==
    /\ route # NoRoute /\ routed = NoReturn /\ route.i > Len(route.sources)
    /\ routed' = [kind |-> IF route.method = "fetch_news" THEN "empty_list" ELSE "empty_frame",
                  source |-> 0, columns |-> FallbackColumns[route.method]]
    /\ UNCHANGED route
    /\ UNCHANGED outsideRouter

\* the caller takes the result
Taken ==
    /\ routed # NoReturn
    /\ route' = NoRoute
    /\ routed' = NoReturn
    /\ UNCHANGED outsideRouter

\* every fetch_* method over every list of sources
RouterSpec == Init /\ [][RouterFetch \/ TrySource \/ Fallback \/ Taken]_vars

----------------------------------------------------------------------------
(* The paper-trading simulator *)

\* engine.buy(stock_code, shares, price)
Buy ==
    /\ Len(trades) < MaxTrades
    /\ \E stock \in Stocks, shares \in ShareVals, price \in PriceVals :
          \E p \in {buy(cash, positions, trades, stock, shares, price)} :
              /\ cash' = p.cash
              /\ positions' = p.positions
              /\ trades' = p.trades
              /\ tcall' = [method |-> "buy", stock |-> stock, shares |-> shares,
                           price |-> price, outcome |-> p.outcome]
    /\ UNCHANGED initial_capital
    /\ UNCHANGED outsideSimulator

\* engine.sell(stock_code, shares, price)
Sell ==
    /\ Len(trades) < MaxTrades
    /\ \E stock \in Stocks, shares \in ShareVals, price \in PriceVals :
          \E p \in {sell(cash, positions, trades, stock, shares, price)} :
              /\ cash' = p.cash
              /\ positions' = p.positions
              /\ trades' = p.trades
              /\ tcall' = [method |-> "sell", stock |-> stock, shares |-> shares,
                           price |-> price, outcome |-> p.outcome]
    /\ UNCHANGED initial_capital
    /\ UNCHANGED outsideSimulator

\* every sequence of buys and sells on a portfolio
SimulatorSpec == Init /\ [][Buy \/ Sell]_vars

----------------------------------------------------------------------------
(* A buy and a sell at the same time, each in its transaction.atomic, on a database
   with row locks (the PostgreSQL of settings/base.py) *)

\* the portfolio and the Trade rows after a call that ended as p did
Committed(p) ==
    /\ cash' = p.cash
    /\ positions' = p.positions
    /\ trades' = p.trades
    /\ UNCHANGED <<initial_capital, tcall>>

\* an earlier, finished buy() gives the portfolio its first position
OpenPosition ==
    /\ trades = <<>> /\ txn["buy"].pc = "idle" /\ txn["sell"].pc = "idle"
    /\ \E stock \in Stocks, shares \in {1, 100}, price \in PriceVals :
          \E p \in {buy(cash, positions, trades, stock, shares, price)} :
              p.outcome = "ok" /\ Committed(p)
    /\ UNCHANGED lockVars
    /\ UNCHANGED outsideLocks

\* two requests arrive together: a buy and a sell of the same stock
Begin ==
    /\ txn["buy"].pc = "idle" /\ txn["sell"].pc = "idle"
    /\ Len(trades) + 2 <= MaxTrades
    /\ \E stock \in Stocks, b \in {1, 100}, s \in {1, 100}, price \in {10000, 2002000} :
          txn' = [buy |-> [pc |-> "start", stock |-> stock, shares |-> b, price |-> price,
                           outcome |-> "none"],
                  sell |-> [pc |-> "start", stock |-> stock, shares |-> s, price |-> 10000,
                            outcome |-> "none"]]
    /\ UNCHANGED <<locks, simulatorVars>>
    /\ UNCHANGED outsideLocks

\* buy(): Portfolio.objects.select_for_update().get(...) waits for the Portfolio row
\* lock; with too little cash the call raises and its transaction ends
BuyLockPortfolio ==
    /\ txn["buy"].pc = "start" /\ locks["Portfolio"] = "none"
    /\ \E p \in {buy(cash, positions, trades, txn["buy"].stock, txn["buy"].shares, txn["buy"].price)} :
          IF p.outcome = "ok"
          THEN /\ locks' = [locks EXCEPT !["Portfolio"] = "buy"]
               /\ txn' = [txn EXCEPT !["buy"].pc = "deducted"]
          ELSE /\ locks' = locks
               /\ txn' = [txn EXCEPT !["buy"].pc = "done", !["buy"].outcome = p.outcome]
    /\ UNCHANGED simulatorVars
    /\ UNCHANGED outsideLocks

\* buy(): get_or_create reads or inserts the Position row and position.save() updates
\* it, which waits for the row lock of an existing row; the Trade row is created and
\* the transaction commits
BuySavePosition ==
    /\ txn["buy"].pc = "deducted"
    /\ txn["buy"].stock \notin DOMAIN positions \/ locks["Position"] = "none"
    /\ Committed(buy(cash, positions, trades, txn["buy"].stock, txn["buy"].shares, txn["buy"].price))
    /\ locks' = [locks EXCEPT !["Portfolio"] = "none"]
    /\ txn' = [txn EXCEPT !["buy"].pc = "done", !["buy"].outcome = "ok"]
    /\ UNCHANGED outsideLocks

\* sell(): Position.objects.select_for_update().get(...) waits for the Position row
\* lock; without the row or with too few shares the call raises
SellLockPosition ==
    /\ txn["sell"].pc = "start"
    /\ txn["sell"].stock \notin DOMAIN positions \/ locks["Position"] = "none"
    /\ \E p \in {sell(cash, positions, trades, txn["sell"].stock, txn["sell"].shares, txn["sell"].price)} :
          IF p.outcome = "ok"
          THEN /\ locks' = [locks EXCEPT !["Position"] = "sell"]
               /\ txn' = [txn EXCEPT !["sell"].pc = "locked_position"]
          ELSE /\ locks' = locks
               /\ txn' = [txn EXCEPT !["sell"].pc = "done", !["sell"].outcome = p.outcome]
    /\ UNCHANGED simulatorVars
    /\ UNCHANGED outsideLocks

\* sell(): Portfolio.objects.select_for_update().get(...) waits for the Portfolio row
\* lock; the position and the cash are updated, the Trade row is created and the
\* transaction commits
SellLockPortfolio ==
    /\ txn["sell"].pc = "locked_position" /\ locks["Portfolio"] = "none"
    /\ Committed(sell(cash, positions, trades, txn["sell"].stock, txn["sell"].shares, txn["sell"].price))
    /\ locks' = [locks EXCEPT !["Position"] = "none"]
    /\ txn' = [txn EXCEPT !["sell"].pc = "done", !["sell"].outcome = "ok"]
    /\ UNCHANGED outsideLocks

\* each transaction waits for the row lock the other holds: the database ends one of
\* them with a deadlock error, which rolls it back and releases its lock
DeadlockDetected ==
    /\ txn["buy"].pc = "deducted" /\ locks["Position"] = "sell"
    /\ txn["sell"].pc = "locked_position" /\ locks["Portfolio"] = "buy"
    /\ \E victim \in {"buy", "sell"} :
          /\ txn' = [txn EXCEPT ![victim].pc = "done", ![victim].outcome = "OperationalError"]
          /\ locks' = [locks EXCEPT ![IF victim = "buy" THEN "Portfolio" ELSE "Position"] = "none"]
    /\ UNCHANGED simulatorVars
    /\ UNCHANGED outsideLocks

\* both requests have been answered
Answered ==
    /\ txn["buy"].pc = "done" /\ txn["sell"].pc = "done"
    /\ txn' = [t \in {"buy", "sell"} |-> Idle]
    /\ UNCHANGED <<locks, simulatorVars>>
    /\ UNCHANGED outsideLocks

\* a buy and a sell of one stock in every interleaving of their lock requests
LockNext ==
    \/ OpenPosition \/ Begin \/ BuyLockPortfolio \/ BuySavePosition
    \/ SellLockPosition \/ SellLockPortfolio \/ DeadlockDetected \/ Answered
LockSpec == Init /\ [][LockNext]_vars

----------------------------------------------------------------------------
(* tasks.py: run_analysis_pipeline *)

\* the task starts: the active stocks are listed
RunPipeline ==
    /\ pipe = NoRun
    /\ \E n \in 0..MaxStocks, pattern \in [1..OutcomeCycle -> StockOutcomes] :
          pipe' = [outcomes |-> ActiveStocks(n, pattern), i |-> 1, results |-> <<>>, errors |-> 0]
    /\ summary' = NoSummary
    /\ UNCHANGED outsidePipeline

\* the loop handles the next stock
AnalyzeStock ==
    /\ pipe # NoRun /\ summary = NoSummary /\ pipe.i <= Len(pipe.outcomes)
    /\ pipe' = AnalyzeOne(pipe)
    /\ UNCHANGED summary
    /\ UNCHANGED outsidePipeline

\* the loop is over: the results are sorted, filtered and returned
Summarize ==
    /\ pipe # NoRun /\ summary = NoSummary /\ pipe.i > Len(pipe.outcomes)
    /\ summary' = PipelineSummary(pipe.results, pipe.errors)
    /\ UNCHANGED pipe
    /\ UNCHANGED outsidePipeline

\* the returned dict has been consumed
TaskDone ==
    /\ summary # NoSummary
    /\ pipe' = NoRun
    /\ summary' = NoSummary
    /\ UNCHANGED outsidePipeline

\* every run of the pipeline over the active stocks
PipelineSpec == Init /\ [][RunPipeline \/ AnalyzeStock \/ Summarize \/ TaskDone]_vars

----------------------------------------------------------------------------
(* AIService._call_api in two workers at the same time; the recorded spend lives in
   the cache they share *)

\* _call_api passes the budget check and the provider answers
Respond(c) ==
    /\ callers[c].pc = "idle" /\ usage.responses < MaxResponses
    /\ \E p \in PROVIDERS, u \in BOOLEAN, tokens \in {1000, 2500}, kind \in {"ok", "bad_json"} :
          /\ ~_check_budget(spend[p], budget)
          /\ callers' = [callers EXCEPT ![c] = [pc |-> IF u THEN "get" ELSE "parse", provider |-> p,
                                                usage |-> u, tokens |-> tokens, kind |-> kind,
                                                current |-> 0]]
          /\ usage' = [owed |-> [usage.owed EXCEPT ![p] = IF u THEN _record_usage(p, @, tokens) ELSE @],
                       responses |-> usage.responses + 1]
    /\ UNCHANGED serviceVars
    /\ UNCHANGED outsideUsage

\* _record_usage: current = cache.get(key, 0.0)
CacheGet(c) ==
    /\ callers[c].pc = "get"
    /\ callers' = [callers EXCEPT ![c].pc = "set", ![c].current = spend[callers[c].provider]]
    /\ UNCHANGED <<usage, serviceVars>>
    /\ UNCHANGED outsideUsage

\* _record_usage: cache.set(key, current + estimated_cost, timeout=86400)
CacheSet(c) ==
    /\ callers[c].pc = "set"
    /\ spend' = [spend EXCEPT ![callers[c].provider] =
                     _record_usage(callers[c].provider, callers[c].current, callers[c].tokens)]
    /\ callers' = [callers EXCEPT ![c].pc = "parse"]
    /\ UNCHANGED <<usage, budget, scall, sresult>>
    /\ UNCHANGED outsideUsage

\* json.loads(content): the parsed dict is returned or AIServiceError is raised
Parse(c) ==
    /\ callers[c].pc = "parse"
    /\ callers' = [callers EXCEPT ![c] = NoCaller]
    /\ UNCHANGED <<usage, serviceVars>>
    /\ UNCHANGED outsideUsage

\* two workers in every interleaving of their cache reads and writes
UsageNext == \E c \in Workers : Respond(c) \/ CacheGet(c) \/ CacheSet(c) \/ Parse(c)
UsageSpec == Init /\ [][UsageNext]_vars

----------------------------------------------------------------------------
(* Vocabulary of the properties *)

\* the sum of f over the first i selected analyzers
RECURSIVE SumUpTo(_, _)
SumUpTo(f, i) == IF i = 0 THEN 0 ELSE f[analyzers[i]] + SumUpTo(f, i - 1)

\* the sum of f over the selected analyzers
SumOver(f) == SumUpTo(f, Len(analyzers))

\* x is an integer nearest to num/den: what rounding num/den may give
IsNearest(x, num, den) == 2 * Abs(x * den - num) <= den

\* a/b < c/d for non-negative a, c and positive b, d, without large products
RatLess(a, b, c, d) ==
    IF a \div b # c \div d THEN a \div b < c \div d
    ELSE (a % b) * d < (c % d) * b

\* score and confidence are inside their declared ranges
InRange(score, confidence) ==
    0 <= score /\ score <= 10000 /\ 0 <= confidence /\ confidence <= 100

\* the neutral fallback for an exception whose message is m
IsFallback(v, m) ==
    /\ v.score = 5000
    /\ v.signal = "HOLD"
    /\ v.confidence = 0
    /\ v.explanation = <<"Analysis failed: ", m>>
    /\ v.details = {<<"error", m>>}

\* the AnalysisResult objects that exist in the state
ExistingResults ==
    (IF ~outcome.raised /\ outcome.value # NoResult THEN {outcome.value} ELSE {})
      \cup {ret.value.analyzer_results[n] : n \in DOMAIN ret.value.analyzer_results}

\* score() has returned a dict
Scored == pc = "scored" /\ ~ret.raised

\* the analyzers the scorer holds, their results and the style's nominal weights
Names == Range(analyzers)
Res == ret.value.analyzer_results
Nominal == STYLE_WEIGHTS[style]

\* the behaviour b makes analyze() fail: it throws, or it builds an out-of-range result
Fails(b) == b.kind = "raise" \/ ~InRange(b.score, b.confidence)

\* b builds an AnalysisResult that violates a declared range
ViolatesInvariant(b) == b.kind = "return" /\ ~InRange(b.score, b.confidence)

\* sum(score_i * w_i * max(0.1, confidence_i)) and sum(w_i * max(0.1, confidence_i))
EffNum(results) ==
    SumOver([n \in Names |-> results[n].score * Nominal[n] * Max(10, results[n].confidence)])
EffDen(results) ==
    SumOver([n \in Names |-> Nominal[n] * Max(10, results[n].confidence)])

\* sum(score_i * weight_i), in 1/10000
NominalSum(results) == SumOver([n \in Names |-> results[n].score * Nominal[n]])

----------------------------------------------------------------------------
(* C1: constructing an AnalysisResult succeeds exactly when 0 <= score <= 100 and
   0 <= confidence <= 1; outside a range the constructor raises ValueError and
   produces no object, so every AnalysisResult that exists is within both ranges. *)
C1_ConstructorValidates ==
    /\ pc = "constructed" =>
          /\ ~outcome.raised <=> InRange(args.score, args.confidence)
          /\ outcome.raised => outcome.exc = "ValueError" /\ outcome.value = NoResult
          /\ ~outcome.raised =>
                /\ outcome.value.score = args.score
                /\ outcome.value.signal = args.signal
                /\ outcome.value.confidence = args.confidence
    /\ \A r \in ExistingResults : InRange(r.score, r.confidence)

\* a construction with confidence 1.1 was refused
C1_Witness ==
    pc = "constructed" /\ args.score = 5000 /\ args.confidence = 110 /\ outcome.raised

(* C2: safe_analyze never raises; when analyze() throws an exception with message
   m it returns (50.0, HOLD, 0.0), an explanation containing "failed" and
   details.error = m; when analyze() returns a result it returns that result. *)
C2_SafeAnalyzeNeverRaises ==
    pc = "analyzed" =>
        /\ ~outcome.raised
        /\ analyze(args).raised => IsFallback(outcome.value, analyze(args).msg)
        /\ args.kind = "raise" => outcome.value.details = {<<"error", args.msg>>}
        /\ ~analyze(args).raised =>
              /\ outcome.value = analyze(args).value
              /\ outcome.value.score = args.score
              /\ outcome.value.signal = args.signal
              /\ outcome.value.confidence = args.confidence

\* safe_analyze turned a thrown exception into the fallback
C2_Witness ==
    /\ pc = "analyzed"
    /\ args.kind = "raise"
    /\ args.msg = "Something went wrong"
    /\ IsFallback(outcome.value, "Something went wrong")

(* C3 as claimed: an AnalysisResult built out of range inside analyze() is raised
   to the caller of safe_analyze and of score(), and is not converted into the
   neutral fallback. *)
C3_InvariantViolationPropagates ==
    /\ (pc = "analyzed" /\ ViolatesInvariant(args)) =>
          outcome.raised /\ outcome.exc = "ValueError"
    /\ (pc = "scored" /\ \E n \in Names : ViolatesInvariant(env[n])) =>
          ret.raised /\ ret.exc = "ValueError"

(* C3 as amended: the violation raises ValueError at the construction and leaves
   analyze() when analyze() is called directly; through safe_analyze and through
   score() it is caught like every other exception and becomes the neutral
   fallback whose details.error is the ValueError's message. *)
C3_InvariantViolationCaughtBySafeAnalyze ==
    /\ (pc = "constructed" /\ ~InRange(args.score, args.confidence)) =>
          outcome.raised /\ outcome.exc = "ValueError"
    /\ (pc = "analyze_called" /\ ViolatesInvariant(args)) =>
          outcome.raised /\ outcome.exc = "ValueError"
    /\ (pc = "analyzed" /\ ViolatesInvariant(args)) =>
          /\ ~outcome.raised
          /\ IsFallback(outcome.value,
                        IF ~(0 <= args.score /\ args.score <= 10000)
                        THEN "Score must be 0-100" ELSE "Confidence must be 0-1")
    /\ pc = "scored" =>
          /\ ~ret.raised
          /\ \A n \in Names :
                ViolatesInvariant(env[n]) =>
                    IsFallback(Res[n],
                               IF ~(0 <= env[n].score /\ env[n].score <= 10000)
                               THEN "Score must be 0-100" ELSE "Confidence must be 0-1")

\* score() returned although one analyzer built a result with score 101
C3_Witness ==
    /\ Scored
    /\ \E n \in Names :
          /\ env[n].kind = "return"
          /\ env[n].score = 10100
          /\ Res[n].details = {<<"error", "Score must be 0-100">>}

(* C4: score() never raises because analyzers fail; for every style and every set
   of failing analyzers every selected analyzer is invoked, each one that does not
   fail contributes the result it returned, and when all fail the result is
   final_score 50.0, HOLD, confidence 0.0. *)
C4_ScoreIsolatesFailures ==
    pc = "scored" =>
        /\ ~ret.raised
        /\ invoked = analyzers
        /\ DOMAIN Res = Names
        /\ \A n \in Names :
              /\ Fails(env[n]) => Res[n].score = 5000 /\ Res[n].signal = "HOLD"
                                    /\ Res[n].confidence = 0
              /\ ~Fails(env[n]) => /\ Res[n].score = env[n].score
                                   /\ Res[n].signal = env[n].signal
                                   /\ Res[n].confidence = env[n].confidence
        /\ (\A n \in Names : Fails(env[n])) =>
              /\ ret.value.final_score = 5000
              /\ ret.value.signal = "HOLD"
              /\ ret.value.confidence = 0

\* the first analyzer threw, a later one returned 100.0, and the score shows it
C4_Witness ==
    /\ Scored
    /\ env[analyzers[1]].kind = "raise"
    /\ \E n \in Names : ~Fails(env[n]) /\ Res[n].score = 10000
    /\ ret.value.final_score > 5000

(* C5: final_score = round(sum(score_i w_i max(0.1, c_i)) / sum(w_i max(0.1, c_i)), 2)
   with w_i the nominal weight, clamped to [0, 100]: it is a hundredth nearest to
   the quotient, it lies in [0, 100], and an analyzer with confidence 0 enters
   with a tenth of its nominal weight. *)
C5_FinalScoreFormula ==
    Scored =>
        /\ EffDen(Res) > 0
        /\ IsNearest(ret.value.final_score, EffNum(Res), EffDen(Res))
        /\ 0 <= ret.value.final_score /\ ret.value.final_score <= 10000

\* one analyzer reports 100.0 with confidence 0, all others 0.0 with confidence 1:
\* the final score is above 0 by that analyzer's tenth of a weight
C5_Witness ==
    /\ Scored
    /\ \E n \in Names :
          /\ Res[n].score = 10000 /\ Res[n].confidence = 0
          /\ \A m \in Names \ {n} : Res[m].score = 0 /\ Res[m].confidence = 100
    /\ ret.value.final_score > 0

(* C6: when every selected analyzer reports confidence 1.0, final_score is
   round(sum(score_i * weight_i), 2). *)
C6_FullConfidenceIsNominalSum ==
    (Scored /\ \A n \in Names : Res[n].confidence = 100) =>
        IsNearest(ret.value.final_score, NominalSum(Res), 100)

\* all confidences are 1.0 and the scores differ
C6_Witness ==
    /\ Scored
    /\ \A n \in Names : Res[n].confidence = 100
    /\ \E n, m \in Names : Res[n].score = 7000 /\ Res[m].score = 3000

\* the exact final score when analyzer k reports confidence c instead: the sums
\* ws and tw of the second loop with k's term exchanged
AltFinal(ws, tw, k, c) ==
    LET w == WeightGet(Nominal, k)
        old == EffectiveWeight(w, Res[k].confidence)
        new == EffectiveWeight(w, c)
    IN  FinalQuotient(ws - Res[k].score * old + Res[k].score * new, tw - old + new)

\* the distance of num/den from score s, as a numerator over den
DistNum(num, den, s) == Abs(num - s * den)

(* C7: final_score is a convex combination of the analyzer scores: it lies between
   the smallest and the largest of them; raising one analyzer's confidence, the
   others fixed, never moves final_score away from that analyzer's score, and
   moves the unrounded score strictly closer whenever the raise lifts
   max(0.1, confidence) and the score is not reached yet; for swing with
   technical (85, BUY, 0.9) and all others (50, HOLD, 0.5) it is strictly
   between 50 and 85. *)
C7_ConvexCombination ==
    Scored =>
        /\ \E n \in Names : Res[n].score <= ret.value.final_score
        /\ \E n \in Names : ret.value.final_score <= Res[n].score
        /\ \A ws \in {WeightedSum(analyzers, Res, Nominal, Len(analyzers))},
              tw \in {TotalWeight(analyzers, Res, Nominal, Len(analyzers))} :
           \A k \in Names : \A c \in {50, 100} :
              (c > Res[k].confidence /\ Max(10, c) > Max(10, Res[k].confidence)) =>
                 \A now \in {FinalQuotient(ws, tw)}, alt \in {AltFinal(ws, tw, k, c)} :
                    /\ \A up \in BOOLEAN :
                          Abs(RoundDiv(alt[1], alt[2], up) - Res[k].score)
                             <= Abs(ret.value.final_score - Res[k].score)
                    /\ DistNum(now[1], now[2], Res[k].score) > 0 =>
                          RatLess(DistNum(alt[1], alt[2], Res[k].score), alt[2],
                                  DistNum(now[1], now[2], Res[k].score), now[2])
        /\ (/\ style = "swing"
            /\ Res["technical"].score = 8500 /\ Res["technical"].confidence = 90
            /\ \A n \in Names \ {"technical"} :
                  Res[n].score = 5000 /\ Res[n].confidence = 50) =>
              5000 < ret.value.final_score /\ ret.value.final_score < 8500

\* the swing scenario: technical (85, BUY, 0.9), every other analyzer (50, HOLD, 0.5)
C7_Witness ==
    /\ Scored
    /\ style = "swing"
    /\ Res["technical"].score = 8500 /\ Res["technical"].confidence = 90
    /\ Res["technical"].signal = "BUY"
    /\ \A n \in Names \ {"technical"} :
          Res[n].score = 5000 /\ Res[n].confidence = 50 /\ Res[n].signal = "HOLD"

(* C8: the reporting fields use nominal weights only: component_scores[i] is
   round(score_i * weight_i, 2) for every selected analyzer and confidence is
   round(sum(confidence_i * weight_i) / sum(weight_i), 2), which is in [0, 1]. *)
C8_ReportingUsesNominalWeights ==
    Scored =>
        /\ DOMAIN ret.value.component_scores = Names
        /\ \A n \in Names :
              IsNearest(ret.value.component_scores[n], Res[n].score * Nominal[n], 100)
        /\ IsNearest(ret.value.confidence,
                     SumOver([n \in Names |-> Res[n].confidence * Nominal[n]]),
                     SumOver([n \in Names |-> Nominal[n]]))
        /\ 0 <= ret.value.confidence /\ ret.value.confidence <= 100

\* an analyzer with confidence 0 is reported with its full nominal component
C8_Witness ==
    /\ Scored
    /\ style = "ultra_short"
    /\ Res["technical"].score = 10000 /\ Res["technical"].confidence = 0
    /\ ret.value.component_scores["technical"] = 4000
    /\ ret.value.confidence = 60

(* C9: the signal of score() depends on the returned final_score only: BUY iff
   final_score >= 70, SELL iff final_score <= 30, HOLD iff 30 < final_score < 70. *)
C9_SignalFromFinalScore ==
    Scored =>
        /\ ret.value.signal = "BUY" <=> ret.value.final_score >= 7000
        /\ ret.value.signal = "SELL" <=> ret.value.final_score <= 3000
        /\ ret.value.signal = "HOLD" <=>
              (3000 < ret.value.final_score /\ ret.value.final_score < 7000)

\* a final score of exactly 70.0 gives BUY
C9_Witness == Scored /\ ret.value.final_score = 7000 /\ ret.value.signal = "BUY"

(* C10: for every style the analyzers a scorer instantiates, and those it invokes
   in score(), are exactly the keys of the style's weight table; for ultra_short
   they are technical, money_flow, chip, sentiment, game_theory and
   behavior_finance, and none of fundamental, sector_rotation, macro, ai. *)
C10_OnlyNeededAnalyzers ==
    /\ pc \in {"ready", "armed", "scored"} =>
          /\ Names = DOMAIN STYLE_WEIGHTS[style]
          /\ Len(analyzers) = Cardinality(Names)
          /\ style = "ultra_short" =>
                /\ Names = {"technical", "money_flow", "chip", "sentiment",
                            "game_theory", "behavior_finance"}
                /\ Names \cap {"fundamental", "sector_rotation", "macro", "ai"} = {}
    /\ pc = "scored" =>
          /\ Range(invoked) = DOMAIN STYLE_WEIGHTS[style]
          /\ Len(invoked) = Cardinality(Range(invoked))

\* an ultra_short scorer has run its six analyzers
C10_Witness ==
    pc = "scored" /\ style = "ultra_short" /\ Len(invoked) = 6
----------------------------------------------------------------------------
(* Vocabulary of the analyzer properties *)

\* analyze() of a data analyzer has returned a result
Analysed == astep = "analysed" /\ ainput.name \in DataAnalyzers /\ ~aresult.raised

\* every component of the analysed data scores c
AllComponents(c) == \A k \in DOMAIN ainput.comps : ainput.comps[k] = c

\* the neutral result (50.0, HOLD, 0.0)
IsNeutral(v) == v.score = 5000 /\ v.signal = "HOLD" /\ v.confidence = 0

(* C11 as claimed: every per-style table of STYLE_WEIGHTS and the WEIGHTS table of
   every analyzer class, MacroAnalyzer included, sums to 1.0. *)
C11_EveryWeightTableSumsToOne ==
    /\ \A st \in TradingStyle : TableSum(STYLE_WEIGHTS[st]) = 100
    /\ Analysed => TableSum(WEIGHTS[ainput.name]) = 100

(* C11 as amended: every per-style table of STYLE_WEIGHTS sums to 1.0, and so does
   the WEIGHTS table of Technical, Fundamental, MoneyFlow, Chip, Sentiment,
   SectorRotation, GameTheory and BehaviorFinance, so that equal component scores
   c give the final score c; MacroAnalyzer.WEIGHTS is empty and sums to 0. *)
C11_WeightTablesSumToOneExceptMacro ==
    /\ \A st \in TradingStyle : TableSum(STYLE_WEIGHTS[st]) = 100
    /\ \A a \in DataAnalyzers \ {"macro"} : TableSum(WEIGHTS[a]) = 100
    /\ Analysed =>
          /\ ainput.name # "macro" =>
                /\ TableSum(WEIGHTS[ainput.name]) = 100
                /\ \A c \in CompVals :
                      (Sufficient(ainput) /\ AllComponents(c)) => aresult.value.score = c
          /\ ainput.name = "macro" =>
                DOMAIN WEIGHTS[ainput.name] = {} /\ TableSum(WEIGHTS[ainput.name]) = 0

\* the macro analyzer, whose table is empty, has analysed
C11_Witness ==
    /\ Analysed
    /\ ainput.name = "macro"
    /\ TableSum(WEIGHTS[ainput.name]) = 0
    /\ aresult.value.score = 5000

\* the analysed data holds fewer records than the analyzer's documented minimum
BelowMinimum ==
    \/ ainput.name = "technical" /\ ainput.n < 30
    \/ ainput.name = "money_flow" /\ ainput.n < 5
    \/ ainput.name = "chip" /\ ainput.n < 5
    \/ ainput.name = "sentiment" /\ ainput.n < 3
    \/ ainput.name = "game_theory" /\ ainput.n < 10
    \/ ainput.name = "behavior_finance" /\ ainput.n < 10
    \/ ainput.name = "fundamental" /\ ainput.n = 0
    \/ ainput.name = "sector_rotation" /\ (ainput.peers < 3 \/ ainput.n < 3)

(* C12: an analyzer given fewer records than its minimum sample count (Technical
   < 30 bars, MoneyFlow < 5, Chip < 5, Sentiment < 3 scored articles, GameTheory
   < 10, BehaviorFinance < 10, Fundamental 0 reports, SectorRotation < 3 active
   peers or < 3 peers with at least 10 bars) returns exactly score 50.0, HOLD,
   confidence 0.0 and raises nothing. *)
C12_InsufficientDataIsNeutral ==
    (astep = "analysed" /\ ainput.name \in DataAnalyzers /\ BelowMinimum) =>
        /\ ~aresult.raised
        /\ IsNeutral(aresult.value)

\* the technical analyzer has analysed 29 bars
C12_Witness ==
    /\ Analysed
    /\ ainput.name = "technical"
    /\ ainput.n = 29
    /\ IsNeutral(aresult.value)

\* the AI analyzer has returned a result computed from an adjusted_score
AnalysedAI ==
    /\ astep = "analysed" /\ ainput.name = "ai" /\ ~aresult.raised
    /\ \E pair \in aresult.value.details : pair[1] = "adjusted_score"

\* the clamped adjusted_score the AI analyzer compared (thousandths)
AdjustedScore == (CHOOSE pair \in aresult.value.details : pair[1] = "adjusted_score")[2]

\* value (in units of 1/scale) maps to signal by >= 70 BUY, <= 30 SELL, else HOLD
MapsInclusive(value, scale, signal) ==
    /\ signal = "BUY" <=> value >= 70 * scale
    /\ signal = "SELL" <=> value <= 30 * scale
    /\ signal = "HOLD" <=> (30 * scale < value /\ value < 70 * scale)

\* value maps to signal by > 70 BUY, < 30 SELL, else HOLD
MapsStrict(value, scale, signal) ==
    /\ signal = "BUY" <=> value > 70 * scale
    /\ signal = "SELL" <=> value < 30 * scale
    /\ signal = "HOLD" <=> (30 * scale <= value /\ value <= 70 * scale)

(* C13: each analyzer maps its final score to its signal with its own comparison:
   FundamentalAnalyzer gives BUY only above 70 and SELL only below 30, so exactly
   70 and exactly 30 give HOLD; MoneyFlow, Chip, Sentiment, SectorRotation,
   GameTheory and BehaviorFinance give BUY at >= 70 and SELL at <= 30 of the
   score they return; Technical and AI give BUY at >= 70 and SELL at <= 30 of the
   final score they compare, which they round only afterwards. *)
C13_SignalOperatorPerAnalyzer ==
    /\ (Analysed /\ Sufficient(ainput)) =>
          /\ ainput.name = "fundamental" =>
                MapsStrict(aresult.value.score, 100, aresult.value.signal)
          /\ ainput.name \in {"money_flow", "chip", "sentiment", "sector_rotation",
                              "game_theory", "behavior_finance"} =>
                MapsInclusive(aresult.value.score, 100, aresult.value.signal)
          /\ ainput.name = "technical" =>
                /\ MapsInclusive(Clamp100(WeightedScore(ainput.comps, WEIGHTS.technical)),
                                 10000, aresult.value.signal)
                /\ IsNearest(aresult.value.score,
                             Clamp100(WeightedScore(ainput.comps, WEIGHTS.technical)), 100)
    /\ AnalysedAI =>
          /\ MapsInclusive(AdjustedScore, 1000, aresult.value.signal)
          /\ IsNearest(aresult.value.score, AdjustedScore, 10)

\* the fundamental analyzer scored exactly 70.0 and said HOLD
C13_Witness ==
    /\ Analysed
    /\ ainput.name = "fundamental"
    /\ aresult.value.score = 7000
    /\ aresult.value.signal = "HOLD"

----------------------------------------------------------------------------
(* Vocabulary of the signal generator properties *)

\* generate() has returned
Generated == gstep = "generated"

\* the bars generate() fetched, newest first
Klines == FetchKlines(gargs.stored, gargs.atr_period)

(* C14: for a stock with zero price bars generate() returns, whatever the scorer
   result says, signal HOLD, entry_price, stop_loss and take_profit 0.0,
   position_pct 0.0, risk_reward_ratio 0.0 and confidence 0.0, with the
   explanation that no price data is available. *)
C14_NoBarsGivesDegenerateHold ==
    (Generated /\ gargs.stored = <<>>) =>
        /\ gsignal.signal = "HOLD"
        /\ gsignal.entry_price = 0 /\ gsignal.stop_loss = 0 /\ gsignal.take_profit = 0
        /\ gsignal.position_pct = 0
        /\ gsignal.risk_reward_ratio = 0
        /\ gsignal.confidence = 0
        /\ gsignal.explanation = <<"No price data available for signal generation">>
        /\ gsignal.score = gargs.scorer_result.final_score
        /\ gsignal.style = gargs.scorer_result.style

\* a BUY scorer result with confidence 0.8 met a stock without bars
C14_Witness ==
    /\ Generated
    /\ gargs.stored = <<>>
    /\ gargs.scorer_result.signal = "BUY"
    /\ gargs.scorer_result.confidence = 80
    /\ gsignal.signal = "HOLD"

(* C15: every TradingSignal generated from at least one price bar, for every
   style and every bar series, has stop_loss < entry_price < take_profit when it
   is a BUY, take_profit < entry_price < stop_loss when it is a SELL, and
   stop_loss < entry_price < take_profit with a risk_reward_ratio of about 1.0
   when it is a HOLD; entry_price is the most recent close. *)
C15_PriceLevelsStrictlyOrdered ==
    (Generated /\ Klines # <<>>) =>
        /\ gsignal.signal = "BUY" =>
              gsignal.stop_loss < gsignal.entry_price /\ gsignal.entry_price < gsignal.take_profit
        /\ gsignal.signal = "SELL" =>
              gsignal.take_profit < gsignal.entry_price /\ gsignal.entry_price < gsignal.stop_loss
        /\ gsignal.signal = "HOLD" =>
              /\ gsignal.stop_loss < gsignal.entry_price
              /\ gsignal.entry_price < gsignal.take_profit
              /\ Abs(gsignal.risk_reward_ratio - 100) <= 10
        /\ IsNearest(gsignal.entry_price, Klines[1].close, 100)

\* the ATR of the fetched bars is zero: every true range averaged is zero
FlatATR == _calculate_atr(Klines, gargs.atr_period).num = 0

(* C16 as claimed: every BUY or SELL TradingSignal generated from at least one
   price bar has a risk_reward_ratio within 0.1 of TARGET_RR[style] (2.0, 3.0,
   4.0), whatever the magnitude of the ATR. *)
C16_RiskRewardNearTarget ==
    (Generated /\ Klines # <<>> /\ gsignal.signal \in {"BUY", "SELL"}) =>
        Abs(gsignal.risk_reward_ratio - 10 * TARGET_RR[gsignal.style]) <= 10

(* C16 as amended: a BUY or SELL TradingSignal generated from bars whose ATR is
   above zero has a risk_reward_ratio within 0.1 of TARGET_RR[style] (2.0, 3.0,
   4.0 for ultra_short, swing, mid_long) whatever the magnitude of that ATR;
   when the ATR is zero the stop distance is zero and risk_reward_ratio is 0.0. *)
C16_RiskRewardNearTargetUnlessFlat ==
    (Generated /\ Klines # <<>> /\ gsignal.signal \in {"BUY", "SELL"}) =>
        /\ ~FlatATR =>
              /\ Abs(gsignal.risk_reward_ratio - 10 * TARGET_RR[gsignal.style]) <= 10
              /\ gsignal.risk_reward_ratio \in {200, 300, 400}
        /\ FlatATR => gsignal.risk_reward_ratio = 0

\* a SELL for mid_long from two bars with an ATR of 0.001: the rounded stop_loss is
\* the entry price, and the ratio is still 4.0
C16_Witness ==
    /\ Generated
    /\ gsignal.signal = "SELL"
    /\ gsignal.style = "mid_long"
    /\ <<"atr", 10>> \in gsignal.details
    /\ gsignal.risk_reward_ratio = 400

\* MAX_POSITION_PCT[style] * confidence * |score - 50| / 50 in hundredths of a percent,
\* as the numerator over 5000
ExactPosition(st, score, confidence) ==
    (CASE st = "ultra_short" -> 10 [] st = "swing" -> 15 [] st = "mid_long" -> 25)
        * confidence * Abs(score - 5000)

\* the values round(x, 2) may give for x = ExactPosition / 5000
RoundedPositions(st, score, confidence) ==
    LET exact == ExactPosition(st, score, confidence)
    IN  {p \in {exact \div 5000, exact \div 5000 + 1} : IsNearest(p, exact, 5000)}

(* C17: for every style, score in [0,100] and confidence in [0,1], the position_pct
   of a signal generated from price bars is
   round(MAX_POSITION_PCT[style] * confidence * |score-50|/50, 2); it does not
   decrease when the confidence grows at a fixed score, nor when |score-50| grows
   at a fixed confidence; it is 0 when the score is 50 and never exceeds
   MAX_POSITION_PCT[style] (10, 15, 25). *)
C17_PositionSizing ==
    (Generated /\ Klines # <<>>) =>
        LET st == gsignal.style
            score == gsignal.score
            confidence == gsignal.confidence
        IN  /\ gsignal.position_pct \in RoundedPositions(st, score, confidence)
            /\ \A c2 \in GenConfs :
                  c2 > confidence =>
                      \A p2 \in RoundedPositions(st, score, c2) : p2 >= gsignal.position_pct
            /\ \A s2 \in GenScores :
                  Abs(s2 - 5000) > Abs(score - 5000) =>
                      \A p2 \in RoundedPositions(st, s2, confidence) :
                          p2 >= gsignal.position_pct
            /\ score = 5000 => gsignal.position_pct = 0
            /\ 0 <= gsignal.position_pct
            /\ gsignal.position_pct <= 100 * MAX_POSITION_PCT[st]

\* a swing BUY at score 80.0 with confidence 0.8 is sized at 7.2 percent
C17_Witness ==
    /\ Generated
    /\ Klines # <<>>
    /\ gsignal.style = "swing"
    /\ gsignal.score = 8000
    /\ gsignal.confidence = 80
    /\ gsignal.position_pct = 720

\* _calculate_atr has been called on at least one bar
Measured == gstep = "measured" /\ Klines # <<>>

\* the sum of the true ranges of the k newest bars, each against the close of the bar
\* one day older; klines are newest first
RECURSIVE NewestRangeSum(_, _)
NewestRangeSum(klines, k) ==
    IF k = 0 THEN 0
    ELSE LET high == klines[k].high
             low == klines[k].low
             prev_close == klines[k + 1].close
             tr == CHOOSE m \in {high - low, Abs(high - prev_close), Abs(low - prev_close)} :
                       /\ m >= high - low
                       /\ m >= Abs(high - prev_close)
                       /\ m >= Abs(low - prev_close)
         IN  tr + NewestRangeSum(klines, k - 1)

(* C18: _calculate_atr over n >= 2 bars given newest first is the arithmetic mean of
   the last min(atr_period, n-1) true ranges in chronological order, with
   TR_i = max(high_i - low_i, |high_i - prev_close|, |low_i - prev_close|); over
   exactly one bar it is that bar's high - low; over 20 bars with a constant
   high-low range of 0.4 and daily close steps of 0.1, ATR(14) is 0.4 within
   0.01. *)
C18_AtrIsMeanOfRecentTrueRanges ==
    Measured =>
        LET n == Len(Klines)
            k == Min(gargs.atr_period, n - 1)
        IN  /\ ~gatr.raised
            /\ gatr.den > 0
            /\ n >= 2 => gatr.num * k = NewestRangeSum(Klines, k) * gatr.den
            /\ n = 1 => gatr.num = (Klines[1].high - Klines[1].low) * gatr.den
            /\ (gargs.stored = Trend(20, 1000, 2000) /\ gargs.atr_period = 14) =>
                  Abs(gatr.num - 4000 * gatr.den) <= 100 * gatr.den

\* three bars whose two true ranges differ, measured with atr_period 1: the ATR is
\* the newest true range alone
C18_Witness ==
    /\ Measured
    /\ Len(Klines) = 3
    /\ gargs.atr_period = 1
    /\ NewestRangeSum(Klines, 2) # 2 * NewestRangeSum(Klines, 1)
    /\ gatr.num = NewestRangeSum(Klines, 1) * gatr.den

----------------------------------------------------------------------------
(* Vocabulary of the AI analyzer properties *)

\* AIAnalyzer.analyze has run for an existing stock with a known provider
AICalled ==
    /\ astep = "analysed" /\ ainput.name = "ai"
    /\ ainput.found /\ ainput.provider \in PROVIDERS

\* what score_factors did inside that call
ScoreFactorsOutcome ==
    score_factors(ainput.provider, scall.before, budget, ainput.api).outcome

\* score_factors returned a dict with a numeric adjusted_score
NumericAnswer == ~ScoreFactorsOutcome.raised /\ ScoreFactorsOutcome.value.kind = "number"

\* the adjusted_score of that dict limited to [0, 100] (thousandths)
Limited ==
    LET x == ScoreFactorsOutcome.value.adjusted_score
    IN  IF x < 0 THEN 0 ELSE IF x > 100000 THEN 100000 ELSE x

\* the analyzer returned (50.0, HOLD, 0.0) with details.error set to the message
FellBack ==
    /\ ~aresult.raised
    /\ aresult.value.score = 5000
    /\ aresult.value.signal = "HOLD"
    /\ aresult.value.confidence = 0
    /\ <<"error", ScoreFactorsOutcome.msg>> \in aresult.value.details

(* C19 as claimed: AIAnalyzer.analyze for an existing stock returns, for every
   numeric adjusted_score of the AI service, that value clamped to [0,100] as the
   result score; when score_factors raises AIServiceError or its
   BudgetExceededError sub-kind it returns score 50.0, HOLD, confidence 0.0 with
   details.error set to the message, and no exception leaves analyze(). *)
C19_ScoreIsClampedAdjustedScore ==
    AICalled =>
        /\ NumericAnswer => (~aresult.raised /\ aresult.value.score * 10 = Limited)
        /\ (ScoreFactorsOutcome.raised
              /\ ScoreFactorsOutcome.exc \in {"AIServiceError", "BudgetExceededError"})
              => FellBack

(* C19 as amended: for every numeric adjusted_score the result score is that value
   clamped to [0,100] and then rounded to two decimals, while
   details.adjusted_score holds the clamped value unrounded; when score_factors
   raises AIServiceError or BudgetExceededError the analyzer returns score 50.0,
   HOLD, confidence 0.0 with details.error set to the message, and no exception
   leaves analyze(). *)
C19_ScoreIsRoundedClampedAdjustedScore ==
    AICalled =>
        /\ NumericAnswer =>
              /\ ~aresult.raised
              /\ IsNearest(aresult.value.score, Limited, 10)
              /\ 0 <= aresult.value.score /\ aresult.value.score <= 10000
              /\ <<"adjusted_score", Limited>> \in aresult.value.details
        /\ (ScoreFactorsOutcome.raised
              /\ ScoreFactorsOutcome.exc \in {"AIServiceError", "BudgetExceededError"})
              => FellBack

\* the AI answered 72.456 and the result score is 72.46
C19_Witness ==
    /\ AICalled
    /\ NumericAnswer
    /\ ScoreFactorsOutcome.value.adjusted_score = 72456
    /\ aresult.value.score = 7246

----------------------------------------------------------------------------
(* Vocabulary of the AI service properties *)

\* the last step was a call of a public method of AIService
Called == scall.method \in ServiceMethods

(* C20: whenever the recorded daily spend of a provider is at or above the daily
   budget when a call of analyze_news, analyze_financial, score_factors or
   generate_report starts, the call raises BudgetExceededError, makes no outbound
   API request and leaves the recorded spend unchanged; the error is never
   rewrapped as a generic AIServiceError.  Below the budget no call raises
   BudgetExceededError. *)
C20_BudgetBlocksCall ==
    Called =>
        /\ scall.before >= budget =>
              /\ sresult.outcome.raised
              /\ sresult.outcome.exc = "BudgetExceededError"
              /\ ~sresult.sent
              /\ sresult.spend = scall.before
              /\ spend[scall.provider] = scall.before
        /\ scall.before < budget =>
              ~(sresult.outcome.raised /\ sresult.outcome.exc = "BudgetExceededError")

\* generate_report was called with the recorded spend exactly at the budget
C20_Witness ==
    /\ Called
    /\ scall.method = "generate_report"
    /\ scall.before = budget
    /\ sresult.outcome.exc = "BudgetExceededError"
    /\ ~sresult.sent

----------------------------------------------------------------------------
(* C30: every AnalysisResult returned by an analyzer with the inclusive thresholds,
   TechnicalAnalyzer and AIAnalyzer included, carries a signal that agrees with
   the two-decimal score it carries: BUY iff score >= 70, SELL iff score <= 30,
   HOLD iff 30 < score < 70. *)
C30_SignalAgreesWithReturnedScore ==
    (/\ astep = "analysed"
     /\ ~aresult.raised
     /\ ainput.name \in {"technical", "money_flow", "chip", "sentiment", "sector_rotation",
                         "game_theory", "behavior_finance", "ai"}) =>
        MapsInclusive(aresult.value.score, 100, aresult.value.signal)

----------------------------------------------------------------------------
(* Vocabulary of the order properties *)

\* order with the names at positions i and j exchanged
Swapped(order, i, j) ==
    [k \in 1..Len(order) |-> IF k = i THEN order[j] ELSE IF k = j THEN order[i] ELSE order[k]]

\* other orders in which the selected analyzers may be run and aggregated: every
\* exchange of two neighbours, the exchange of the first and the last, and the
\* reverse order
Reorderings(order) ==
    {Swapped(order, i, i + 1) : i \in 1..(Len(order) - 1)}
      \cup {Swapped(order, 1, Len(order))}
      \cup {[k \in 1..Len(order) |-> order[Len(order) + 1 - k]]}

\* the list of analyzers the explanation reports, in the order it reports them
Reported(order) ==
    LET sorted == SortedNames(order, Res, Len(order))
    IN  ExplanationParts(sorted, Res, Len(sorted))

\* the distances from 50 of the reported analyzers, in the order of the report
ReportedDistances(order) ==
    LET parts == Reported(order)
    IN  [k \in 1..Len(parts) |-> Abs(Res[parts[k][1]].score - 5000)]

\* no two analyzers the explanation could report are equally far from 50
DistinctDistances ==
    \A a, b \in Names :
        (a # b /\ Abs(Res[a].score - 5000) >= 1500 /\ Abs(Res[b].score - 5000) >= 1500) =>
            Abs(Res[a].score - 5000) # Abs(Res[b].score - 5000)

\* the numbers score() returns do not depend on the order: the exact final score and
\* confidence before rounding, the signal, and the component scores
NumbersAgree(order) ==
    /\ FinalUnrounded(order, Res, Nominal) = FinalUnrounded(analyzers, Res, Nominal)
    /\ ConfUnrounded(order, Res, Nominal) = ConfUnrounded(analyzers, Res, Nominal)
    /\ ScoreSignal(ret.value.final_score) = ret.value.signal
    /\ Range(order) = DOMAIN ret.value.component_scores
    /\ \A name \in Range(order) :
          IsNearest(ret.value.component_scores[name],
                    Res[name].score * WeightGet(Nominal, name), 100)

(* C21 as claimed: aggregation in score() is order-independent: for a fixed set of
   analyzer results the returned final_score, signal, confidence, component_scores
   and explanation are the same for every order in which the selected analyzers
   are run and their results aggregated. *)
C21_AggregationOrderIndependent ==
    Scored =>
        \A order \in Reorderings(analyzers) :
            /\ NumbersAgree(order)
            /\ _build_explanation(style, order, Res, ret.value.signal) = ret.value.explanation

(* C21 as amended: for a fixed set of analyzer results the final_score, signal,
   confidence and component_scores are the same for every order in which the
   analyzers are run and aggregated; the explanation has the same prefix and
   lists the analyzers by the same non-increasing distances from 50 in every
   order, and is the same text when no two reportable analyzers are equally far
   from 50: analyzers equally far from 50 are listed in the order they were
   run. *)
C21_NumbersOrderIndependentExplanationUpToTies ==
    Scored =>
        \A order \in Reorderings(analyzers) :
        \E explanation \in {_build_explanation(style, order, Res, ret.value.signal)} :
            /\ NumbersAgree(order)
            /\ explanation[1] = ret.value.explanation[1]
            /\ ReportedDistances(order) = ReportedDistances(analyzers)
            /\ DistinctDistances => explanation = ret.value.explanation

\* one analyzer scores 100.0 with confidence 0, another 15.0 with confidence 1, the
\* rest 50.0: every order gives the same numbers and the same explanation, which
\* reports the two by their distance from 50
C21_Witness ==
    /\ Scored
    /\ \E a, b \in Names :
          /\ Res[a].score = 10000 /\ Res[a].confidence = 0
          /\ Res[b].score = 1500 /\ Res[b].confidence = 100
          /\ \A c \in Names \ {a, b} : Res[c].score = 5000
          /\ ret.value.explanation[3] = <<<<a, "bullish", 100>>, <<b, "bearish", 15>>>>
    /\ DistinctDistances
    /\ \A order \in Reorderings(analyzers) :
          /\ NumbersAgree(order)
          /\ _build_explanation(style, order, Res, ret.value.signal) = ret.value.explanation

----------------------------------------------------------------------------
(* C22: every price-bar consumer (TechnicalAnalyzer with lookback 120,
   GameTheoryAnalyzer and BehaviorFinanceAnalyzer with lookback 30, SignalGenerator
   with max(atr_period+1, 30)) computes over the N most recent bars of the stock:
   with more than N bars stored, no bar older than the N most recent is among the
   rows it reads, and the most recent bar always is. *)
C22_ConsumersReadMostRecentBars ==
    (wquery.done /\ wquery.stored >= 1) =>
        LET N == IF wquery.consumer = "signal_generator"
                 THEN Max(wquery.lookback + 1, 30) ELSE wquery.lookback
        IN  /\ wquery.stored \in Range(wrows)
            /\ Range(wrows) = {d \in 1..wquery.stored : d > wquery.stored - N}

----------------------------------------------------------------------------
\* the sources that give a non-empty result
Succeeding == {j \in 1..Len(route.sources) : route.sources[j] = "data"}

(* C23: DataSourceRouter.fetch_* tries its sources in list order and returns the
   result of the first source that gives a non-empty one, calling no later source;
   a source that raises, returns None or returns an empty result is skipped; when no
   source succeeds the call returns the empty DataFrame with the method's standard
   columns (the empty list for fetch_news); it never returns None and never raises. *)
C23_FirstNonEmptySourceWins ==
    (routed # NoReturn) =>
        /\ routed.kind \in {"frame", "rows", "empty_frame", "empty_list"}
        /\ IF Succeeding # {}
           THEN \E first \in Succeeding :
                    /\ \A j \in Succeeding : first <= j
                    /\ routed.source = first
                    /\ routed.kind = (IF route.method = "fetch_news" THEN "rows" ELSE "frame")
                    /\ route.called = [k \in 1..first |-> k]
           ELSE /\ routed.kind = (IF route.method = "fetch_news" THEN "empty_list" ELSE "empty_frame")
                /\ routed.columns = FallbackColumns[route.method]
                /\ route.called = [k \in 1..Len(route.sources) |-> k]

\* fetch_kline over a raising source followed by two succeeding ones returned the
\* rows of the second of three sources and never called the third
C23_Witness ==
    /\ route.method = "fetch_kline"
    /\ route.sources = <<"raises", "data", "data">>
    /\ routed.kind = "frame" /\ routed.source = 2
    /\ route.called = <<1, 2>>

----------------------------------------------------------------------------
\* what a call of buy() or sell() with the arguments of call is to end with on a
\* portfolio holding cash_balance and rows
DocumentedOutcome(call, cash_balance, rows) ==
    LET amount == RoundDiv(call.shares * call.price, 100, TRUE)
        commission == Max(RoundDiv(amount * 25, 100000, TRUE), 500)
    IN  IF call.shares <= 0 THEN "ValueError"
        ELSE IF call.method = "buy"
        THEN (IF cash_balance < amount + commission THEN "InsufficientFundsError" ELSE "ok")
        ELSE (IF call.stock \notin DOMAIN rows THEN "InsufficientSharesError"
              ELSE IF rows[call.stock].shares < call.shares THEN "InsufficientSharesError"
              ELSE "ok")

(* C24: a failed trade leaves the portfolio unchanged. buy raises ValueError when
   shares <= 0 and InsufficientFundsError when cash_balance < amount + commission;
   sell raises ValueError when shares <= 0 and InsufficientSharesError when there is
   no position or it has fewer shares; in each of these cases the cash balance, the
   Position rows and the Trade log are what they were before the call. *)
C24_FailedTradeChangesNothing ==
    [][(tcall'.method # "none") =>
          /\ tcall'.outcome = DocumentedOutcome(tcall', cash, positions)
          /\ (tcall'.outcome # "ok") => UNCHANGED <<cash, positions, trades>>]_vars

\* a sell of more shares than the position holds failed on a portfolio that has traded
C24_Witness ==
    /\ tcall.method = "sell" /\ tcall.outcome = "InsufficientSharesError"
    /\ tcall.stock \in DOMAIN positions
    /\ positions[tcall.stock].shares = 1 /\ tcall.shares = 100
    /\ Len(trades) >= 1

\* the cash the first n Trade rows moved: minus amount + commission of each BUY, plus
\* amount - commission of each SELL
RECURSIVE CashMoved(_)
CashMoved(n) ==
    IF n = 0 THEN 0
    ELSE CashMoved(n - 1) + (IF trades[n].trade_type = "BUY"
                              THEN 0 - (trades[n].amount + trades[n].commission)
                              ELSE trades[n].amount - trades[n].commission)

\* the shares of a stock the first n Trade rows bought, less those they sold
RECURSIVE NetShares(_, _)
NetShares(stock, n) ==
    IF n = 0 THEN 0
    ELSE NetShares(stock, n - 1) + (IF trades[n].stock # stock THEN 0
                                     ELSE IF trades[n].trade_type = "BUY" THEN trades[n].shares
                                     ELSE 0 - trades[n].shares)

(* C25: after any sequence of buys and sells the state is the fold of the trade log:
   cash_balance == starting cash - sum over BUY of (amount + commission) + sum over
   SELL of (amount - commission), each commission == max(round_half_up(amount *
   0.00025, 2), 5.00); a Position's shares == bought - sold of its stock, every
   existing Position has shares > 0, and there is no row when the net is 0. *)
C25_StateIsFoldOfTradeLog ==
    /\ cash = initial_capital + CashMoved(Len(trades))
    /\ \A n \in 1..Len(trades) :
          trades[n].commission = Max(RoundDiv(trades[n].amount * 25, 100000, TRUE), 500)
    /\ \A stock \in Stocks :
          /\ (stock \in DOMAIN positions) <=> (NetShares(stock, Len(trades)) > 0)
          /\ (stock \in DOMAIN positions) =>
                 /\ positions[stock].shares = NetShares(stock, Len(trades))
                 /\ positions[stock].shares > 0

\* three trades, one with a commission above the minimum, sold a stock out (no row
\* left) and left a position in the other
C25_Witness ==
    /\ Len(trades) = 3
    /\ \E n \in 1..3 : trades[n].trade_type = "SELL" /\ trades[n].stock \notin DOMAIN positions
    /\ \E n \in 1..3 : trades[n].commission = 501
    /\ DOMAIN positions # {}

(* C27: after any sequence of buys and sells with positive shares and prices, from
   a non-negative cash balance, cash_balance is never negative. *)
C27_CashNeverNegative ==
    cash >= 0

----------------------------------------------------------------------------
(* C28: a buy and a sell running at the same time on the same portfolio and stock
   never deadlock: the Portfolio row lock and the Position row lock are acquired in
   a compatible order, no transaction waits for a lock held by one that waits for
   its own, and neither trade is ended by the database to break a deadlock. *)
C28_ConcurrentTradesNeverDeadlock ==
    /\ ~(/\ txn["buy"].pc = "deducted" /\ locks["Position"] = "sell"
         /\ txn["sell"].pc = "locked_position" /\ locks["Portfolio"] = "buy")
    /\ txn["buy"].outcome # "OperationalError"
    /\ txn["sell"].outcome # "OperationalError"

----------------------------------------------------------------------------
\* the entries of a list are in non-increasing score order and all carry one signal
Ranked(entries, signal) ==
    /\ \A k \in 1..Len(entries) : entries[k].signal = signal
    /\ \A k \in 1..(Len(entries) - 1) : entries[k].score >= entries[k + 1].score

(* C26: run_analysis_pipeline isolates per-stock failures: total_analyzed + errors
   is the number of active stocks and buy_count + sell_count + hold_count is
   total_analyzed, so an exception on one stock does not stop the later stocks;
   top_picks holds only BUY entries and top_sells only SELL entries, each at most
   10, in non-increasing score order. *)
C26_PipelineIsolatesFailures ==
    (summary # NoSummary) =>
        /\ summary.total_analyzed + summary.errors = Len(pipe.outcomes)
        /\ summary.errors = Cardinality({k \in 1..Len(pipe.outcomes) : pipe.outcomes[k].raises})
        /\ summary.buy_count + summary.sell_count + summary.hold_count = summary.total_analyzed
        /\ summary.hold_count >= 0
        /\ \A k \in 1..Len(pipe.outcomes) :
              (~pipe.outcomes[k].raises) => \E j \in 1..Len(pipe.results) : pipe.results[j].stock_code = k
        /\ Ranked(summary.top_picks, "BUY") /\ Len(summary.top_picks) <= 10
        /\ Ranked(summary.top_sells, "SELL") /\ Len(summary.top_sells) <= 10

\* twelve stocks of which the second, fifth, ... raised and the others scored BUY at
\* two different scores, the lower one first: the later stocks were analysed and
\* top_picks is the best of them
C26_Witness ==
    /\ summary # NoSummary
    /\ Len(pipe.outcomes) = 12
    /\ pipe.outcomes[1].score = 7000 /\ pipe.outcomes[2].raises /\ pipe.outcomes[3].score = 8500
    /\ summary.errors = 4 /\ summary.total_analyzed = 8 /\ summary.buy_count = 8
    /\ summary.top_picks[1].score = 8500 /\ summary.top_picks[8].score = 7000

----------------------------------------------------------------------------
(* C29: for every interleaving of AIService calls on the same provider and day,
   sequential or concurrent, the recorded spend equals the sum of the estimated
   costs of all responses that carried usage, those whose JSON failed to parse
   included: once every call has returned no recorded cost is lost, and a
   provider's spend holds nothing of another provider's responses. *)
C29_RecordedSpendIsSumOfCosts ==
    (\A c \in Workers : callers[c].pc = "idle") =>
        \A p \in PROVIDERS : spend[p] = usage.owed[p]
====
